---- MODULE Spec2Model ----
(***************************************************************************)
(* Model of the fridge-analyzer backend: the Convex functions of           *)
(* convex/fridge.ts (src/unnamed/part_001) and convex/recipes.ts (the      *)
(* second half of src/fridge_analyzer_mobile_app/src/App.tsx), the two     *)
(* tables of convex/schema.ts, the scheduler's jobs and the object store.  *)
(*                                                                         *)
(* Strings are sequences of one-character strings, so that the text        *)
(* heuristics (split, trim, regex replace, includes) are computed as the   *)
(* code computes them.  A JSON value is a record [k, v] tagged with its    *)
(* JavaScript type.                                                        *)
(***************************************************************************)
EXTENDS Integers, Sequences, FiniteSets, TLC

VARIABLES
    fridgeAnalyses,   \* table fridgeAnalyses: document id -> document
    scannedRecipes,   \* table scannedRecipes: document id -> document
    nextAnalysisId,   \* the id ctx.db.insert("fridgeAnalyses") hands out next
    nextRecipeId,     \* the id ctx.db.insert("scannedRecipes") hands out next
    jobs,             \* the scheduler's functions, in the order they were scheduled
    issued,           \* upload targets handed out by ctx.storage.generateUploadUrl
    stored,           \* files in the object store: the storage ids 1..stored
    reply,            \* what the client call made in this step answered
    ui                \* the React state of the client and its running handlers

vars == <<fridgeAnalyses, scannedRecipes, nextAnalysisId, nextRecipeId, jobs,
          issued, stored, reply, ui>>
store == <<fridgeAnalyses, scannedRecipes, nextAnalysisId, nextRecipeId, jobs,
           issued, stored>>

----------------------------------------------------------------------------
(* Bounds of the model *)

MaxRecords == 1      \* documents ever inserted, both tables together
MaxFiles == 1        \* upload targets ever issued

(* Program constants *)

PageLimit == 20          \* .take(20)
IngredientCap == 10      \* fridge fallback .slice(0, 10)
FallbackRecipeSize == 4  \* ingredients.slice(0, 4)
ScanIngredientCap == 15  \* recipeData.ingredients = ingredients.slice(0, 15)
ScanInstructionCap == 10 \* recipeData.instructions = instructions.slice(0, 10)
InstructionMinLen == 20  \* line.length > 20
NameMinLen == 5          \* line.length > 5
NameMaxLen == 50         \* line.length < 50

----------------------------------------------------------------------------
(* Identities and handles *)

Users == {"u1", "u2"}
NoUser == "anonymous"            \* getAuthUserId(ctx) yields null
Callers == Users \cup {NoUser}

DanglingId == 0                  \* a well-formed id with nothing behind it

Null == [isNull |-> TRUE]        \* the null a query returns
Undefined == <<"undefined">>     \* an absent optional field

----------------------------------------------------------------------------
(* Strings: sequences of characters *)

Spaces == {" ", "\t", "\r", "\n"}
Digits == {"0", "1", "2", "3", "4", "5", "6", "7", "8", "9"}
Bullet == "U+2022"               \* the character U+2022 (a bullet), one element like any character
Bullets == {"-", "*", Bullet}

RECURSIVE TrimStart(_)
TrimStart(s) ==
    IF s # <<>> /\ Head(s) \in Spaces THEN TrimStart(Tail(s)) ELSE s

RECURSIVE TrimEnd(_)
TrimEnd(s) ==
    IF s # <<>> /\ s[Len(s)] \in Spaces THEN TrimEnd(SubSeq(s, 1, Len(s) - 1)) ELSE s

Trim(s) == TrimEnd(TrimStart(s))

\* the pieces of s between the separators, one more than there are separators
Split(s, sep) ==
    LET at == {i \in 1..Len(s) : s[i] = sep}
        cut == [k \in 0..(Cardinality(at) + 1) |->
                  IF k = 0 THEN 0
                  ELSE IF k = Cardinality(at) + 1 THEN Len(s) + 1
                  ELSE CHOOSE i \in at : Cardinality({x \in at : x < i}) = k - 1]
    IN [k \in 1..(Cardinality(at) + 1) |-> SubSeq(s, cut[k - 1] + 1, cut[k] - 1)]

Slice(s, n) == SubSeq(s, 1, IF Len(s) < n THEN Len(s) ELSE n)

Includes(s, sub) ==
    \E i \in 1..(Len(s) - Len(sub) + 1) : SubSeq(s, i, i + Len(sub) - 1) = sub

IndexOf(s, sub) ==
    IF Includes(s, sub)
    THEN CHOOSE i \in 1..(Len(s) - Len(sub) + 1) :
            /\ SubSeq(s, i, i + Len(sub) - 1) = sub
            /\ \A j \in 1..(i - 1) : SubSeq(s, j, j + Len(sub) - 1) # sub
    ELSE 0

Upper == <<"A", "B", "C", "D", "E", "F", "G", "H", "I", "J", "K", "L", "M",
           "N", "O", "P", "Q", "R", "S", "T", "U", "V", "W", "X", "Y", "Z">>
Lower == <<"a", "b", "c", "d", "e", "f", "g", "h", "i", "j", "k", "l", "m",
           "n", "o", "p", "q", "r", "s", "t", "u", "v", "w", "x", "y", "z">>

LowerChar(c) ==
    IF \E i \in 1..Len(Upper) : Upper[i] = c
    THEN Lower[CHOOSE i \in 1..Len(Upper) : Upper[i] = c]
    ELSE c

ToLowerCase(s) == [i \in 1..Len(s) |-> LowerChar(s[i])]

----------------------------------------------------------------------------
(* JSON values *)

JStr(s) == [k |-> "string", v |-> s]
JNum(s) == [k |-> "number", v |-> s]
JArr(items) == [k |-> "array", v |-> items]
JObj(fields) == [k |-> "object", v |-> fields]
JNull == [k |-> "null", v |-> <<>>]

IsStr(j) == j.k = "string"
IsStrArray(j) == j.k = "array" /\ \A i \in 1..Len(j.v) : IsStr(j.v[i])
Strings(j) == [i \in 1..Len(j.v) |-> j.v[i].v]
JStrings(ss) == JArr([i \in 1..Len(ss) |-> JStr(ss[i])])

----------------------------------------------------------------------------
(* What the inference client answers.  A completion either raises or        *)
(* returns choices; choices[0].message.content is null, a JSON text (given  *)
(* by the value JSON.parse yields for it) or a text JSON.parse rejects.     *)

NullContent == [kind |-> "null", val |-> JNull, text |-> <<>>]
JsonContent(j) == [kind |-> "json", val |-> j, text |-> <<>>]
TextContent(t) == [kind |-> "text", val |-> JNull, text |-> t]

Raises == [outcome |-> "raise", choices |-> 0, content |-> NullContent]
NoChoice == [outcome |-> "ok", choices |-> 0, content |-> NullContent]
Answer(c) == [outcome |-> "ok", choices |-> 1, content |-> c]

\* if (content): null and the empty string are falsy
Truthy(content) ==
    \/ content.kind = "json"
    \/ content.kind = "text" /\ content.text # <<>>

\* the completion value of a block of synchronous code
Returns(x) == [threw |-> FALSE, val |-> x, err |-> ""]
Throws(e) == [threw |-> TRUE, val |-> JNull, err |-> e]

----------------------------------------------------------------------------
(* processImage: the ingredient list (fridge.ts lines 83-100) *)

\* line.replace(/^[-*U+2022]\s*/, '')
StripBullet(line) ==
    IF line # <<>> /\ Head(line) \in Bullets THEN TrimStart(Tail(line)) ELSE line

NonEmpty(ss) == SelectSeq(ss, LAMBDA item : Len(item) > 0)

\* FallbackIngredients without .slice(0, 10)
FallbackIngredients_Uncapped(text) ==
    LET lines == Split(text, "\n")
    IN NonEmpty([i \in 1..Len(lines) |-> Trim(StripBullet(lines[i]))])

\* content.split('\n').map(...).filter(item => item.length > 0).slice(0, 10)
FallbackIngredients(text) ==
    LET lines == Split(text, "\n")
        items == [i \in 1..Len(lines) |-> Trim(StripBullet(lines[i]))]
    IN Slice(NonEmpty(items), IngredientCap)

\* let ingredients = []; try { ... JSON.parse(content) } catch (e) { fallback }
ParseIngredients(resp) ==
    IF resp.choices = 0 THEN Throws("TypeError")
    ELSE IF ~Truthy(resp.content) THEN Returns(JArr(<<>>))
    ELSE IF resp.content.kind = "json" THEN Returns(resp.content.val)
    ELSE Returns(JStrings(FallbackIngredients(resp.content.text)))

\* CheckIngredients without the test of line 98
CheckIngredients_NoEmptyCheck(j) ==
    IF j.k # "array" THEN Throws("TypeError") ELSE Returns(j)

\* if (ingredients.length === 0) throw ...; then ingredients.join(", ") in the prompt
CheckIngredients(j) ==
    IF j.k = "null" THEN Throws("TypeError")
    ELSE IF j.k \in {"array", "string"} /\ Len(j.v) = 0
    THEN Throws("No ingredients identified")
    ELSE IF j.k # "array" THEN Throws("TypeError")
    ELSE Returns(j)

IngredientsStep(resp) ==
    LET parsed == ParseIngredients(resp)
    IN IF parsed.threw THEN parsed ELSE CheckIngredients(parsed.val)

----------------------------------------------------------------------------
(* processImage: the recipes (fridge.ts lines 124-141) *)

HeatOil == <<"H", "e", "a", "t", " ", "o", "i", "l", " ", "i", "n", " ", "p", "a", "n">>
AddIngredients == <<"A", "d", "d", " ", "i", "n", "g", "r", "e", "d", "i", "e", "n", "t", "s">>
StirFry == <<"S", "t", "i", "r", " ", "f", "r", "y", " ", "f", "o", "r", " ", "5", "-", "7", " ", "m", "i", "n", "u", "t", "e", "s">>
SeasonAndServe == <<"S", "e", "a", "s", "o", "n", " ", "a", "n", "d", " ", "s", "e", "r", "v", "e">>
SimpleStirFry == <<"S", "i", "m", "p", "l", "e", " ", "S", "t", "i", "r", " ", "F", "r", "y">>
Minutes15 == <<"1", "5", " ", "m", "i", "n", "u", "t", "e", "s">>
Easy == <<"E", "a", "s", "y">>

\* FallbackRecipe without .slice(0, 4)
FallbackRecipe_AllIngredients(ingredients) ==
    JObj([name |-> JStr(SimpleStirFry),
          ingredients |-> JArr(ingredients.v),
          instructions |-> JStrings(<<HeatOil, AddIngredients, StirFry, SeasonAndServe>>),
          cookingTime |-> JStr(Minutes15),
          difficulty |-> JStr(Easy)])

FallbackRecipe(ingredients) ==
    JObj([name |-> JStr(SimpleStirFry),
          ingredients |-> JArr(Slice(ingredients.v, FallbackRecipeSize)),
          instructions |-> JStrings(<<HeatOil, AddIngredients, StirFry, SeasonAndServe>>),
          cookingTime |-> JStr(Minutes15),
          difficulty |-> JStr(Easy)])

\* ParseRecipes, had the parsed array been dropped for the fallback
ParseRecipes_FallbackOnly(resp, ingredients) == JArr(<<FallbackRecipe(ingredients)>>)

\* let recipes = []; try { ... JSON.parse(content) } catch (e) { recipes = [fallback] }
ParseRecipes(resp, ingredients) ==
    IF resp.choices = 0 THEN JArr(<<FallbackRecipe(ingredients)>>)
    ELSE IF ~Truthy(resp.content) THEN JArr(<<>>)
    ELSE IF resp.content.kind = "json" THEN resp.content.val
    ELSE JArr(<<FallbackRecipe(ingredients)>>)

\* the validator of updateAnalysis (fridge.ts lines 163-174)
RecipeFields == {"name", "ingredients", "instructions", "cookingTime", "difficulty"}

ValidRecipe(j) ==
    /\ j.k = "object"
    /\ DOMAIN j.v = RecipeFields
    /\ IsStr(j.v.name)
    /\ IsStrArray(j.v.ingredients)
    /\ IsStrArray(j.v.instructions)
    /\ IsStr(j.v.cookingTime)
    /\ IsStr(j.v.difficulty)

ValidAnalysisArgs(ingredients, recipes) ==
    /\ IsStrArray(ingredients)
    /\ recipes.k = "array"
    /\ \A i \in 1..Len(recipes.v) : ValidRecipe(recipes.v[i])

\* a validated recipe as the table stores it
StoredRecipe(j) ==
    [name |-> j.v.name.v,
     ingredients |-> Strings(j.v.ingredients),
     instructions |-> Strings(j.v.instructions),
     cookingTime |-> j.v.cookingTime.v,
     difficulty |-> j.v.difficulty.v]

StoredRecipes(recipes) == [i \in 1..Len(recipes.v) |-> StoredRecipe(recipes.v[i])]

----------------------------------------------------------------------------
(* processRecipeImage: the recipe data (recipes.ts, App.tsx lines 623-681) *)

ScannedRecipeName == <<"S", "c", "a", "n", "n", "e", "d", " ", "R", "e", "c", "i", "p", "e">>
Unknown == <<"U", "n", "k", "n", "o", "w", "n">>
Medium == <<"M", "e", "d", "i", "u", "m">>
Other == <<"O", "t", "h", "e", "r">>
ScanFailed == <<"S", "c", "a", "n", " ", "F", "a", "i", "l", "e", "d">>

DefaultRecipeData ==
    [name |-> JStr(ScannedRecipeName),
     ingredients |-> JArr(<<>>),
     instructions |-> JArr(<<>>),
     cookingTime |-> JStr(Unknown),
     servings |-> JStr(Unknown),
     difficulty |-> JStr(Medium),
     category |-> JStr(Other)]

\* the own enumerable keys { ...parsed } copies
SpreadKeys(parsed) ==
    IF parsed.k = "object" THEN DOMAIN parsed.v
    ELSE IF parsed.k \in {"array", "string"} THEN {ToString(i - 1) : i \in 1..Len(parsed.v)}
    ELSE {}

SpreadValue(parsed, key) ==
    IF parsed.k = "object" THEN parsed.v[key]
    ELSE IF parsed.k = "array" THEN parsed.v[CHOOSE i \in 1..Len(parsed.v) : ToString(i - 1) = key]
    ELSE JStr(<<parsed.v[CHOOSE i \in 1..Len(parsed.v) : ToString(i - 1) = key]>>)

\* Merge, had the spread been written { ...parsed, ...recipeData }
Merge_DefaultsWin(data, parsed) ==
    [f \in DOMAIN data \cup SpreadKeys(parsed) |->
        IF f \in DOMAIN data THEN data[f] ELSE SpreadValue(parsed, f)]

\* { ...recipeData, ...parsed }
Merge(data, parsed) ==
    [f \in DOMAIN data \cup SpreadKeys(parsed) |->
        IF f \in SpreadKeys(parsed) THEN SpreadValue(parsed, f) ELSE data[f]]

\* content.split('\n').filter(line => line.trim())
ScanLines(text) == SelectSeq(Split(text, "\n"), LAMBDA line : Trim(line) # <<>>)

IsNameLine(line) ==
    \/ Includes(ToLowerCase(line), <<"r", "e", "c", "i", "p", "e">>)
    \/ Includes(ToLowerCase(line), <<"t", "i", "t", "l", "e">>)
    \/ /\ ~Includes(line, <<":">>)
       /\ Len(line) > NameMinLen
       /\ Len(line) < NameMaxLen

\* nameMatch.replace(/recipe:?/i, ''): the first match only
StripRecipeWord(line) ==
    LET i == IndexOf(ToLowerCase(line), <<"r", "e", "c", "i", "p", "e">>)
        after == SubSeq(line, i + 6, Len(line))
    IN IF i = 0 THEN line
       ELSE SubSeq(line, 1, i - 1)
            \o (IF after # <<>> /\ Head(after) = ":" THEN Tail(after) ELSE after)

IsIngredientLine(line) ==
    \/ Trim(line) # <<>> /\ Head(Trim(line)) \in Digits \cup Bullets
    \/ Includes(ToLowerCase(line), <<"c", "u", "p">>)
    \/ Includes(ToLowerCase(line), <<"t", "b", "s", "p">>)
    \/ Includes(ToLowerCase(line), <<"t", "s", "p">>)

\* line.replace(/^[\dU+2022\-*.\s]+/, '')
RECURSIVE StripMarkers(_)
StripMarkers(line) ==
    IF line # <<>> /\ Head(line) \in Digits \cup Bullets \cup {"."} \cup Spaces
    THEN StripMarkers(Tail(line))
    ELSE line

ActionVerbs == {<<"c", "o", "o", "k">>, <<"a", "d", "d">>, <<"m", "i", "x">>, <<"h", "e", "a", "t">>, <<"b", "a", "k", "e">>, <<"s", "t", "i", "r">>}

IsInstructionLine(line) ==
    /\ Len(line) > InstructionMinLen
    /\ \E verb \in ActionVerbs : Includes(line, verb)

\* the catch block of the inner try: text-based extraction
HeuristicRecipeData(data, text) ==
    LET lines == ScanLines(text)
        names == SelectSeq(lines, IsNameLine)
        found == SelectSeq(lines, IsIngredientLine)
        ingredients == [i \in 1..Len(found) |-> Trim(StripMarkers(found[i]))]
        instructions == SelectSeq(lines, IsInstructionLine)
        d1 == IF names # <<>>
              THEN [data EXCEPT !.name = JStr(Trim(StripRecipeWord(Head(names))))]
              ELSE data
        d2 == IF Len(ingredients) > 0
              THEN [d1 EXCEPT !.ingredients = JStrings(Slice(ingredients, ScanIngredientCap))]
              ELSE d1
    IN IF Len(instructions) > 0
       THEN [d2 EXCEPT !.instructions = JStrings(Slice(instructions, ScanInstructionCap))]
       ELSE d2

\* let recipeData = {defaults}; try { ... } catch (e) { ... }
ParseRecipeData(resp) ==
    IF resp.choices = 0 THEN Throws("TypeError")
    ELSE IF ~Truthy(resp.content) THEN Returns(DefaultRecipeData)
    ELSE IF resp.content.kind = "json"
    THEN Returns(Merge(DefaultRecipeData, resp.content.val))
    ELSE Returns(HeuristicRecipeData(DefaultRecipeData, resp.content.text))

\* x.length === 0, for the values JSON can give x
HasLengthZero(j) == j.k \in {"array", "string"} /\ Len(j.v) = 0

\* CheckRecipeData without the test of line 679
CheckRecipeData_NoEmptyCheck(data) ==
    IF data.ingredients.k = "null" THEN Throws("TypeError")
    ELSE IF ~HasLengthZero(data.ingredients) THEN Returns(data)
    ELSE IF data.instructions.k = "null" THEN Throws("TypeError")
    ELSE Returns(data)

\* if (recipeData.ingredients.length === 0 && recipeData.instructions.length === 0) throw
CheckRecipeData(data) ==
    IF data.ingredients.k = "null" THEN Throws("TypeError")
    ELSE IF ~HasLengthZero(data.ingredients) THEN Returns(data)
    ELSE IF data.instructions.k = "null" THEN Throws("TypeError")
    ELSE IF HasLengthZero(data.instructions)
    THEN Throws("No recipe information could be extracted from the image")
    ELSE Returns(data)

RecipeDataStep(resp) ==
    LET parsed == ParseRecipeData(resp)
    IN IF parsed.threw THEN parsed ELSE CheckRecipeData(parsed.val)

\* the validator of updateScannedRecipe (App.tsx lines 705-717)
RequiredScanFields == {"name", "ingredients", "instructions"}
OptionalScanFields == {"cookingTime", "servings", "difficulty", "category"}

ValidRecipeData(data) ==
    /\ RequiredScanFields \subseteq DOMAIN data
    /\ DOMAIN data \subseteq RequiredScanFields \cup OptionalScanFields
    /\ IsStr(data.name)
    /\ IsStrArray(data.ingredients)
    /\ IsStrArray(data.instructions)
    /\ \A f \in OptionalScanFields \cap DOMAIN data : IsStr(data[f])

\* args.recipeData.<field>, undefined when the field is absent
FieldOf(data, f) == IF f \in DOMAIN data THEN data[f].v ELSE Undefined

FailedRecipeData ==
    [name |-> JStr(ScanFailed), ingredients |-> JArr(<<>>), instructions |-> JArr(<<>>)]

----------------------------------------------------------------------------
(* The inference answers the model draws from *)

Eggs == <<"e", "g", "g", "s">>
Milk == <<"m", "i", "l", "k">>
Omelette == <<"O", "m", "e", "l", "e", "t", "t", "e">>
WhiskStep == <<"W", "h", "i", "s", "k", " ", "e", "g", "g", "s", " ", "a", "n", "d", " ", "m", "i", "l", "k">>
Minutes10 == <<"1", "0", " ", "m", "i", "n", "u", "t", "e", "s">>

GoodRecipe ==
    JObj([name |-> JStr(Omelette),
          ingredients |-> JStrings(<<Eggs, Milk>>),
          instructions |-> JStrings(<<WhiskStep>>),
          cookingTime |-> JStr(Minutes10),
          difficulty |-> JStr(Easy)])

\* a recipe object without "difficulty"
PartialRecipe ==
    JObj([name |-> JStr(Omelette),
          ingredients |-> JStrings(<<Eggs>>),
          instructions |-> JStrings(<<WhiskStep>>),
          cookingTime |-> JStr(Minutes10)])

IngredientAnswers ==
    << Raises,
       NoChoice,
       Answer(NullContent),
       Answer(TextContent(<<>>)),
       Answer(JsonContent(JStrings(<<Eggs, Milk>>))),
       Answer(JsonContent(JArr(<<>>))),
       Answer(JsonContent(JObj([note |-> JStr(Eggs)]))),
       Answer(JsonContent(JArr(<<JNum(<<"1">>)>>))),
       Answer(TextContent(<<"-", " ", "e", "g", "g", "s", "\n", "*", " ", "m", "i", "l", "k">>)),
       Answer(TextContent(<<" ", "\n", "-", " ">>)) >>

RecipeAnswers ==
    << Raises,
       NoChoice,
       Answer(NullContent),
       Answer(JsonContent(JArr(<<GoodRecipe>>))),
       Answer(JsonContent(JArr(<<PartialRecipe>>))),
       Answer(JsonContent(JObj([recipes |-> JArr(<<>>)]))),
       Answer(TextContent(<<"H", "e", "r", "e", " ", "a", "r", "e", " ", "3", " ", "r", "e", "c", "i", "p", "e", "s">>)) >>

Pancakes == <<"P", "a", "n", "c", "a", "k", "e", "s">>
Flour == <<"2", " ", "c", "u", "p", "s", " ", "f", "l", "o", "u", "r">>
MixStep == <<"M", "i", "x">>
Serves4 == <<"4", " ", "s", "e", "r", "v", "i", "n", "g", "s">>

ScanAnswers ==
    << Raises,
       NoChoice,
       Answer(NullContent),
       Answer(JsonContent(JObj([name |-> JStr(Pancakes),
                                ingredients |-> JStrings(<<Flour>>),
                                instructions |-> JStrings(<<MixStep>>),
                                servings |-> JStr(Serves4)]))),
       Answer(JsonContent(JObj([name |-> JStr(Pancakes)]))),
       Answer(JsonContent(JObj([ingredients |-> JStrings(<<Flour>>),
                                notes |-> JStr(MixStep)]))),
       Answer(JsonContent(JObj([ingredients |-> JNull]))),
       Answer(JsonContent(JStrings(<<Flour>>))),
       Answer(TextContent(<<"P", "a", "n", "c", "a", "k", "e", " ", "R", "e", "c", "i", "p", "e", ":", "\n", "-", " ", "2", " ", "c", "u", "p", "s", " ", "f", "l", "o", "u", "r", "\n", "T", "h", "e", "n", " ", "m", "i", "x", " ", "t", "h", "e", " ", "f", "l", "o", "u", "r", " ", "a", "n", "d", " ", "m", "i", "l", "k", " ", "w", "e", "l", "l">>)),
       Answer(TextContent(<<"n", "o", " ", "t", "e", "x", "t">>)) >>

\* what each answer makes of the synchronous code that follows the completion
IngredientOutcomes ==
    [a \in 1..Len(IngredientAnswers) |-> IngredientsStep(IngredientAnswers[a])]

RecipeDataOutcomes ==
    [a \in 1..Len(ScanAnswers) |-> RecipeDataStep(ScanAnswers[a])]

----------------------------------------------------------------------------
(* The object store and the scheduler *)

\* ctx.storage.getUrl(storageId): null when no file is stored under the id
GetUrl(storageId) ==
    IF storageId \in 1..stored THEN [url |-> storageId] ELSE Null

\* NewJob, had the two arguments of the scheduled function been swapped
NewJob_Swapped(fn, id, storageId) ==
    [fn |-> fn, recId |-> storageId, storageId |-> id, pc |-> "scheduled",
     ingredients |-> JArr(<<>>), recipes |-> JArr(<<>>),
     recipeData |-> DefaultRecipeData, error |-> "", patched |-> 0, calls |-> 0]

NewJob(fn, id, storageId) ==
    [fn |-> fn, recId |-> id, storageId |-> storageId, pc |-> "scheduled",
     ingredients |-> JArr(<<>>), recipes |-> JArr(<<>>),
     recipeData |-> DefaultRecipeData, error |-> "", patched |-> 0, calls |-> 0]

\* Schedule, had the function been queued twice
Schedule_Twice(queue, fn, id, storageId) ==
    Append(Append(queue, NewJob(fn, id, storageId)), NewJob(fn, id, storageId))

\* ctx.scheduler.runAfter(0, fn, {id, storageId})
Schedule(queue, fn, id, storageId) == Append(queue, NewJob(fn, id, storageId))

Inserted == (nextAnalysisId - 1) + (nextRecipeId - 1)

\* what a client call answered: err is the message of the error it raised, "" if none
Replied(op, caller, err) == [op |-> op, authenticated |-> caller # NoUser, err |-> err]

\* no answer is under way
NoReply == [op |-> "", authenticated |-> FALSE, err |-> ""]

\* the answer of the last client call has reached the client
Idle == reply = NoReply

----------------------------------------------------------------------------
(* fridge.ts: the public mutations *)

GenerateUploadUrl(u, op) ==
    /\ Idle
    /\ IF u = NoUser
       THEN /\ reply' = Replied(op, u, "Not authenticated")
            /\ UNCHANGED store
       ELSE /\ issued' = issued + 1
            /\ reply' = Replied(op, u, "")
            /\ UNCHANGED <<fridgeAnalyses, scannedRecipes, nextAnalysisId, nextRecipeId,
                           jobs, stored>>

\* the client POSTs the file to an upload target; the store answers with a storage id
Upload ==
    /\ Idle
    /\ stored < issued
    /\ stored' = stored + 1
    /\ reply' = NoReply
    /\ UNCHANGED <<fridgeAnalyses, scannedRecipes, nextAnalysisId, nextRecipeId,
                   jobs, issued>>

NewAnalysis(u, storageId, id) ==
    [id |-> id, creationTime |-> id, userId |-> u, imageId |-> storageId,
     ingredients |-> <<>>, recipes |-> <<>>, analysisStatus |-> "processing"]

AnalyzeImage(u, storageId) ==
    /\ Idle
    /\ IF u = NoUser
       THEN /\ reply' = Replied("analyzeImage", u, "Not authenticated")
            /\ UNCHANGED store
       ELSE /\ fridgeAnalyses' =
                   fridgeAnalyses @@ (nextAnalysisId :> NewAnalysis(u, storageId, nextAnalysisId))
            /\ nextAnalysisId' = nextAnalysisId + 1
            /\ jobs' = Schedule(jobs, "processImage", nextAnalysisId, storageId)
            /\ reply' = Replied("analyzeImage", u, "")
            /\ UNCHANGED <<scannedRecipes, nextRecipeId, issued, stored>>

----------------------------------------------------------------------------
(* fridge.ts: updateAnalysis and processImage *)

\* PatchAnalysis, had the patch left out the ingredients
PatchAnalysis_NoIngredients(table, id, ingredients, recipes, status) ==
    [table EXCEPT ![id] = [@ EXCEPT !.recipes = StoredRecipes(recipes),
                                    !.analysisStatus = status]]

\* PatchAnalysis, had it patched every analysis of the table
PatchAnalysis_EveryRecord(table, id, ingredients, recipes, status) ==
    [i \in DOMAIN table |-> [table[i] EXCEPT !.ingredients = Strings(ingredients),
                                             !.recipes = StoredRecipes(recipes),
                                             !.analysisStatus = status]]

\* ctx.db.patch(args.analysisId, {ingredients, recipes, analysisStatus})
PatchAnalysis(table, id, ingredients, recipes, status) ==
    [table EXCEPT ![id] = [@ EXCEPT !.ingredients = Strings(ingredients),
                                    !.recipes = StoredRecipes(recipes),
                                    !.analysisStatus = status]]

\* ctx.runMutation(internal.fridge.updateAnalysis, args): the arguments are
\* validated, then the handler runs as one transaction; ok is whether it returned
UpdateAnalysis(table, id, ingredients, recipes, status) ==
    IF ValidAnalysisArgs(ingredients, recipes) /\ id \in DOMAIN table
    THEN [ok |-> TRUE, table |-> PatchAnalysis(table, id, ingredients, recipes, status)]
    ELSE [ok |-> FALSE, table |-> table]

\* control reaches the catch block: the locals of the try block are gone
Caught(job, e) ==
    [job EXCEPT !.pc = "catch", !.error = e,
                !.ingredients = JArr(<<>>), !.recipes = JArr(<<>>),
                !.recipeData = DefaultRecipeData]

\* await openai.chat.completions.create(...): the request is made, the job waits at pc
Requested(job, pc) == [job EXCEPT !.pc = pc, !.calls = @ + 1]

\* a runMutation of the job returned
Patched(job) == [job EXCEPT !.patched = @ + 1]

\* the handler returns (pc "done") or ends with an uncaught error (pc "crashed");
\* error keeps what the catch block logged with console.error
Finished(job, pc) ==
    [job EXCEPT !.pc = pc,
                !.ingredients = JArr(<<>>), !.recipes = JArr(<<>>),
                !.recipeData = DefaultRecipeData]

\* AfterSave, had the catch block run after a save that returned
AfterSave_ThenCatch(job, ok) ==
    Caught(IF ok THEN Patched(job) ELSE job, "Mutation failed")

\* AfterSave, had the save been outside the try block and its error dropped
AfterSave_Swallowed(job, ok) == Finished(IF ok THEN Patched(job) ELSE job, "done")

AfterSave(job, ok) == IF ok THEN Finished(Patched(job), "done") ELSE Caught(job, "Mutation failed")

AfterFail(job, ok) == IF ok THEN Finished(Patched(job), "done") ELSE Finished(job, "crashed")

\* ResolveImage without the test of line 58
ResolveImage_NoUrlCheck(j) ==
    /\ Idle
    /\ jobs[j].fn = "processImage"
    /\ jobs[j].pc = "scheduled"
    /\ jobs' = [jobs EXCEPT ![j] = Requested(@, "infer")]
    /\ reply' = NoReply
    /\ UNCHANGED <<fridgeAnalyses, scannedRecipes, nextAnalysisId, nextRecipeId,
                   issued, stored>>

\* const imageUrl = await ctx.storage.getUrl(args.storageId)
ResolveImage(j) ==
    /\ Idle
    /\ jobs[j].fn = "processImage"
    /\ jobs[j].pc = "scheduled"
    /\ jobs' = [jobs EXCEPT ![j] =
                  IF GetUrl(jobs[j].storageId) = Null
                  THEN Caught(@, "Image not found")
                  ELSE Requested(@, "infer")]
    /\ reply' = NoReply
    /\ UNCHANGED <<fridgeAnalyses, scannedRecipes, nextAnalysisId, nextRecipeId,
                   issued, stored>>

\* the first completion returns (or raises), up to the second request
IdentifyIngredients(j, a) ==
    /\ Idle
    /\ jobs[j].fn = "processImage"
    /\ jobs[j].pc = "infer"
    /\ jobs' = [jobs EXCEPT ![j] =
                  IF IngredientAnswers[a].outcome = "raise"
                  THEN Caught(@, "Connection error")
                  ELSE IF IngredientOutcomes[a].threw
                  THEN Caught(@, IngredientOutcomes[a].err)
                  ELSE [Requested(@, "infer2") EXCEPT
                                 !.ingredients = IngredientOutcomes[a].val]]
    /\ reply' = NoReply
    /\ UNCHANGED <<fridgeAnalyses, scannedRecipes, nextAnalysisId, nextRecipeId,
                   issued, stored>>

\* the second completion returns (or raises), up to the call of updateAnalysis
GenerateRecipes(j, resp) ==
    /\ Idle
    /\ jobs[j].fn = "processImage"
    /\ jobs[j].pc = "infer2"
    /\ jobs' = [jobs EXCEPT ![j] =
                  IF resp.outcome = "raise" THEN Caught(@, "Connection error")
                  ELSE [@ EXCEPT !.pc = "save",
                                 !.recipes = ParseRecipes(resp, jobs[j].ingredients)]]
    /\ reply' = NoReply
    /\ UNCHANGED <<fridgeAnalyses, scannedRecipes, nextAnalysisId, nextRecipeId,
                   issued, stored>>

\* await ctx.runMutation(internal.fridge.updateAnalysis, {..., status: "completed"})
SaveAnalysis(j) ==
    LET job == jobs[j]
        done == UpdateAnalysis(fridgeAnalyses, job.recId, job.ingredients, job.recipes,
                               "completed")
    IN /\ Idle
       /\ job.fn = "processImage"
       /\ job.pc = "save"
       /\ fridgeAnalyses' = done.table
       /\ jobs' = [jobs EXCEPT ![j] = AfterSave(@, done.ok)]
       /\ reply' = NoReply
       /\ UNCHANGED <<scannedRecipes, nextAnalysisId, nextRecipeId, issued, stored>>

\* FailAnalysis, had the catch block only logged the error
FailAnalysis_LogOnly(j) ==
    /\ Idle
    /\ jobs[j].fn = "processImage"
    /\ jobs[j].pc = "catch"
    /\ jobs' = [jobs EXCEPT ![j] = Finished(@, "done")]
    /\ reply' = NoReply
    /\ UNCHANGED <<fridgeAnalyses, scannedRecipes, nextAnalysisId, nextRecipeId,
                   issued, stored>>

\* catch (error) { await ctx.runMutation(internal.fridge.updateAnalysis, {..., "failed"}) }
FailAnalysis(j) ==
    LET job == jobs[j]
        done == UpdateAnalysis(fridgeAnalyses, job.recId, JArr(<<>>), JArr(<<>>), "failed")
    IN /\ Idle
       /\ job.fn = "processImage"
       /\ job.pc = "catch"
       /\ fridgeAnalyses' = done.table
       /\ jobs' = [jobs EXCEPT ![j] = AfterFail(@, done.ok)]
       /\ reply' = NoReply
       /\ UNCHANGED <<scannedRecipes, nextAnalysisId, nextRecipeId, issued, stored>>

----------------------------------------------------------------------------
(* recipes.ts (App.tsx lines 529-792): the public mutations *)

\* NewRecipe, had the document been inserted as completed
NewRecipe_Completed(u, storageId, id) ==
    [id |-> id, creationTime |-> id, userId |-> u, imageId |-> storageId,
     name |-> <<>>, ingredients |-> <<>>, instructions |-> <<>>,
     cookingTime |-> Undefined, servings |-> Undefined,
     difficulty |-> Undefined, category |-> Undefined,
     scanStatus |-> "completed"]

NewRecipe(u, storageId, id) ==
    [id |-> id, creationTime |-> id, userId |-> u, imageId |-> storageId,
     name |-> <<>>, ingredients |-> <<>>, instructions |-> <<>>,
     cookingTime |-> Undefined, servings |-> Undefined,
     difficulty |-> Undefined, category |-> Undefined,
     scanStatus |-> "processing"]

\* ScanRecipe without the test of line 557
ScanRecipe_NoAuthCheck(u, storageId) ==
    /\ Idle
    /\ scannedRecipes' =
          scannedRecipes @@ (nextRecipeId :> NewRecipe(u, storageId, nextRecipeId))
    /\ nextRecipeId' = nextRecipeId + 1
    /\ jobs' = Schedule(jobs, "processRecipeImage", nextRecipeId, storageId)
    /\ reply' = Replied("scanRecipe", u, "")
    /\ UNCHANGED <<fridgeAnalyses, nextAnalysisId, issued, stored>>

ScanRecipe(u, storageId) ==
    /\ Idle
    /\ IF u = NoUser
       THEN /\ reply' = Replied("scanRecipe", u, "Not authenticated")
            /\ UNCHANGED store
       ELSE /\ scannedRecipes' =
                   scannedRecipes @@ (nextRecipeId :> NewRecipe(u, storageId, nextRecipeId))
            /\ nextRecipeId' = nextRecipeId + 1
            /\ jobs' = Schedule(jobs, "processRecipeImage", nextRecipeId, storageId)
            /\ reply' = Replied("scanRecipe", u, "")
            /\ UNCHANGED <<fridgeAnalyses, nextAnalysisId, issued, stored>>

\* ctx.db.delete(args.recipeId)
Remove(table, id) == [i \in DOMAIN table \ {id} |-> table[i]]

DeleteRecipe(u, id) ==
    /\ Idle
    /\ IF u = NoUser
       THEN /\ reply' = Replied("deleteRecipe", u, "Not authenticated")
            /\ UNCHANGED store
       ELSE IF id \notin DOMAIN scannedRecipes \/ scannedRecipes[id].userId # u
       THEN /\ reply' = Replied("deleteRecipe", u, "Recipe not found or not authorized")
            /\ UNCHANGED store
       ELSE /\ scannedRecipes' = Remove(scannedRecipes, id)
            /\ reply' = Replied("deleteRecipe", u, "")
            /\ UNCHANGED <<fridgeAnalyses, nextAnalysisId, nextRecipeId, jobs, issued, stored>>

----------------------------------------------------------------------------
(* recipes.ts: updateScannedRecipe and processRecipeImage *)

\* ctx.db.patch(args.recipeId, {name, ..., scanStatus}); undefined unsets a field
PatchScannedRecipe(table, id, data, status) ==
    [table EXCEPT ![id] = [@ EXCEPT !.name = data.name.v,
                                    !.ingredients = Strings(data.ingredients),
                                    !.instructions = Strings(data.instructions),
                                    !.cookingTime = FieldOf(data, "cookingTime"),
                                    !.servings = FieldOf(data, "servings"),
                                    !.difficulty = FieldOf(data, "difficulty"),
                                    !.category = FieldOf(data, "category"),
                                    !.scanStatus = status]]

\* UpdateScannedRecipe, had the patch created a missing document
UpdateScannedRecipe_Upsert(table, id, data, status) ==
    IF ValidRecipeData(data)
    THEN [ok |-> TRUE,
          table |-> PatchScannedRecipe(
                       IF id \in DOMAIN table THEN table
                       ELSE table @@ (id :> NewRecipe(NoUser, DanglingId, id)),
                       id, data, status)]
    ELSE [ok |-> FALSE, table |-> table]

\* ctx.runMutation(internal.recipes.updateScannedRecipe, args)
UpdateScannedRecipe(table, id, data, status) ==
    IF ValidRecipeData(data) /\ id \in DOMAIN table
    THEN [ok |-> TRUE, table |-> PatchScannedRecipe(table, id, data, status)]
    ELSE [ok |-> FALSE, table |-> table]

ResolveRecipeImage(j) ==
    /\ Idle
    /\ jobs[j].fn = "processRecipeImage"
    /\ jobs[j].pc = "scheduled"
    /\ jobs' = [jobs EXCEPT ![j] =
                  IF GetUrl(jobs[j].storageId) = Null
                  THEN Caught(@, "Image not found")
                  ELSE Requested(@, "infer")]
    /\ reply' = NoReply
    /\ UNCHANGED <<fridgeAnalyses, scannedRecipes, nextAnalysisId, nextRecipeId,
                   issued, stored>>

\* the completion returns (or raises), up to the call of updateScannedRecipe
ExtractRecipe(j, a) ==
    /\ Idle
    /\ jobs[j].fn = "processRecipeImage"
    /\ jobs[j].pc = "infer"
    /\ jobs' = [jobs EXCEPT ![j] =
                  IF ScanAnswers[a].outcome = "raise"
                  THEN Caught(@, "Connection error")
                  ELSE IF RecipeDataOutcomes[a].threw
                  THEN Caught(@, RecipeDataOutcomes[a].err)
                  ELSE [@ EXCEPT !.pc = "save",
                                 !.recipeData = RecipeDataOutcomes[a].val]]
    /\ reply' = NoReply
    /\ UNCHANGED <<fridgeAnalyses, scannedRecipes, nextAnalysisId, nextRecipeId,
                   issued, stored>>

\* await ctx.runMutation(internal.recipes.updateScannedRecipe, {..., status: "completed"})
SaveScannedRecipe(j) ==
    LET job == jobs[j]
        done == UpdateScannedRecipe(scannedRecipes, job.recId, job.recipeData, "completed")
    IN /\ Idle
       /\ job.fn = "processRecipeImage"
       /\ job.pc = "save"
       /\ scannedRecipes' = done.table
       /\ jobs' = [jobs EXCEPT ![j] = AfterSave(@, done.ok)]
       /\ reply' = NoReply
       /\ UNCHANGED <<fridgeAnalyses, nextAnalysisId, nextRecipeId, issued, stored>>

\* catch (error) { await ctx.runMutation(..., {recipeData: {name: "Scan Failed", ...}, "failed"}) }
FailScannedRecipe(j) ==
    LET job == jobs[j]
        done == UpdateScannedRecipe(scannedRecipes, job.recId, FailedRecipeData, "failed")
    IN /\ Idle
       /\ job.fn = "processRecipeImage"
       /\ job.pc = "catch"
       /\ scannedRecipes' = done.table
       /\ jobs' = [jobs EXCEPT ![j] = AfterFail(@, done.ok)]
       /\ reply' = NoReply
       /\ UNCHANGED <<fridgeAnalyses, nextAnalysisId, nextRecipeId, issued, stored>>

----------------------------------------------------------------------------
(* The queries *)

WithImageUrl(doc) == [imageUrl |-> GetUrl(doc.imageId)] @@ doc

\* .withIndex("by_user", q => q.eq("userId", userId))
ByUser(table, u) == {id \in DOMAIN table : table[id].userId = u}

\* .order("desc"): by creation time, newest first
RECURSIVE Descending(_, _)
Descending(table, ids) ==
    IF ids = {} THEN <<>>
    ELSE LET newest == CHOOSE i \in ids :
                          \A k \in ids : table[k].creationTime <= table[i].creationTime
         IN <<table[newest]>> \o Descending(table, ids \ {newest})

\* Page without .take(20)
Page_NoLimit(docs) == [i \in 1..Len(docs) |-> WithImageUrl(docs[i])]

\* .take(20), then the image url of each document
Page(docs) == [i \in 1..Len(Slice(docs, PageLimit)) |-> WithImageUrl(docs[i])]

GetAnalysis(u, id) ==
    IF u = NoUser THEN Null
    ELSE IF id \notin DOMAIN fridgeAnalyses \/ fridgeAnalyses[id].userId # u THEN Null
    ELSE WithImageUrl(fridgeAnalyses[id])

GetUserAnalyses(u) ==
    IF u = NoUser THEN <<>>
    ELSE Page(Descending(fridgeAnalyses, ByUser(fridgeAnalyses, u)))

\* GetScannedRecipe without the owner test of line 741
GetScannedRecipe_NoOwnerCheck(u, id) ==
    IF u = NoUser THEN Null
    ELSE IF id \notin DOMAIN scannedRecipes THEN Null
    ELSE WithImageUrl(scannedRecipes[id])

GetScannedRecipe(u, id) ==
    IF u = NoUser THEN Null
    ELSE IF id \notin DOMAIN scannedRecipes \/ scannedRecipes[id].userId # u THEN Null
    ELSE WithImageUrl(scannedRecipes[id])

GetUserRecipes(u) ==
    IF u = NoUser THEN <<>>
    ELSE Page(Descending(scannedRecipes, ByUser(scannedRecipes, u)))

\* Query, had the queries thrown for an unauthenticated caller as the mutations do
Query_Rejecting(u, op) ==
    /\ Idle
    /\ op \in {"getAnalysis", "getUserAnalyses", "getScannedRecipe", "getUserRecipes"}
    /\ reply' = Replied(op, u, IF u = NoUser THEN "Not authenticated" ELSE "")
    /\ UNCHANGED store

\* a client runs a query: the store does not change
Query(u, op) ==
    /\ Idle
    /\ op \in {"getAnalysis", "getUserAnalyses", "getScannedRecipe", "getUserRecipes"}
    /\ reply' = Replied(op, u, "")
    /\ UNCHANGED store

----------------------------------------------------------------------------
(* The system *)

Components == {"FridgeAnalyzer", "RecipeScanner"}

\* useState(false), useState(null): the components as mounted, no handler running
NoUi ==
    [isUploading |-> [c \in Components |-> FALSE],
     current |-> [c \in Components |-> 0],
     toast |-> "",
     calls |-> <<>>]

Init ==
    /\ fridgeAnalyses = <<>>
    /\ scannedRecipes = <<>>
    /\ nextAnalysisId = 1
    /\ nextRecipeId = 1
    /\ jobs = <<>>
    /\ issued = 0
    /\ stored = 0
    /\ reply = NoReply
    /\ ui = NoUi

\* the storage ids a client can submit: those the store gave out, or a stale one
Submittable == {DanglingId} \cup (1..stored)

\* the bounds of the model: a call that would exceed them is not made
MayInsert(u) == u = NoUser \/ Inserted < MaxRecords
MayUpload(u) == u = NoUser \/ issued < MaxFiles

\* the client receives the answer of its call
Return ==
    /\ reply # NoReply
    /\ reply' = NoReply
    /\ UNCHANGED store

Next ==
    \/ Return /\ UNCHANGED ui
    \/ \E u \in Callers : MayUpload(u) /\ GenerateUploadUrl(u, "fridge.generateUploadUrl") /\ UNCHANGED ui
    \/ \E u \in Callers : MayUpload(u) /\ GenerateUploadUrl(u, "recipes.generateUploadUrl") /\ UNCHANGED ui
    \/ Upload /\ UNCHANGED ui
    \/ \E u \in Callers, s \in Submittable : MayInsert(u) /\ AnalyzeImage(u, s) /\ UNCHANGED ui
    \/ \E u \in Callers, s \in Submittable : MayInsert(u) /\ ScanRecipe(u, s) /\ UNCHANGED ui
    \/ \E u \in Callers, id \in 0..(nextRecipeId - 1) : DeleteRecipe(u, id) /\ UNCHANGED ui
    \/ \E u \in Callers :
          \E op \in {"getAnalysis", "getUserAnalyses", "getScannedRecipe", "getUserRecipes"} :
             Query(u, op) /\ UNCHANGED ui
    \/ \E j \in 1..Len(jobs) : ResolveImage(j) /\ UNCHANGED ui
    \/ \E j \in 1..Len(jobs), a \in 1..Len(IngredientAnswers) :
          IdentifyIngredients(j, a) /\ UNCHANGED ui
    \/ \E j \in 1..Len(jobs), a \in 1..Len(RecipeAnswers) :
          GenerateRecipes(j, RecipeAnswers[a]) /\ UNCHANGED ui
    \/ \E j \in 1..Len(jobs) : SaveAnalysis(j) /\ UNCHANGED ui
    \/ \E j \in 1..Len(jobs) : FailAnalysis(j) /\ UNCHANGED ui
    \/ \E j \in 1..Len(jobs) : ResolveRecipeImage(j) /\ UNCHANGED ui
    \/ \E j \in 1..Len(jobs), a \in 1..Len(ScanAnswers) :
          ExtractRecipe(j, a) /\ UNCHANGED ui
    \/ \E j \in 1..Len(jobs) : SaveScannedRecipe(j) /\ UNCHANGED ui
    \/ \E j \in 1..Len(jobs) : FailScannedRecipe(j) /\ UNCHANGED ui

Spec == Init /\ [][Next]_vars

----------------------------------------------------------------------------
(* Properties *)

Terminal == {"completed", "failed"}

FridgeJobs == {j \in 1..Len(jobs) : jobs[j].fn = "processImage"}
ScanJobs == {j \in 1..Len(jobs) : jobs[j].fn = "processRecipeImage"}

\* what the owner of a document, or any other caller, reads as its status
AnalysisStatusRead(u, id) ==
    IF GetAnalysis(u, id) = Null THEN "null" ELSE GetAnalysis(u, id).analysisStatus

ScanStatusRead(u, id) ==
    IF GetScannedRecipe(u, id) = Null THEN "null" ELSE GetScannedRecipe(u, id).scanStatus

\* C1: the status of a document only ever goes from processing to completed or
\* from processing to failed, and a read that follows a read of completed (failed)
\* of the same document reads completed (failed) again, as long as it reads the
\* document at all.
StatusMonotonic ==
    [][ /\ \A id \in DOMAIN fridgeAnalyses \cap DOMAIN fridgeAnalyses' :
             fridgeAnalyses'[id].analysisStatus # fridgeAnalyses[id].analysisStatus
                => /\ fridgeAnalyses[id].analysisStatus = "processing"
                   /\ fridgeAnalyses'[id].analysisStatus \in Terminal
        /\ \A id \in DOMAIN scannedRecipes \cap DOMAIN scannedRecipes' :
             scannedRecipes'[id].scanStatus # scannedRecipes[id].scanStatus
                => /\ scannedRecipes[id].scanStatus = "processing"
                   /\ scannedRecipes'[id].scanStatus \in Terminal
        /\ \A u \in Callers, id \in 1..(nextAnalysisId - 1) :
             AnalysisStatusRead(u, id) \in Terminal
                => AnalysisStatusRead(u, id)' \in {AnalysisStatusRead(u, id), "null"}
        /\ \A u \in Callers, id \in 1..(nextRecipeId - 1) :
             ScanStatusRead(u, id) \in Terminal
                => ScanStatusRead(u, id)' \in {ScanStatusRead(u, id), "null"}
      ]_vars

\* a scan that went from processing to failed, and a client that has just read it
StatusMonotonicWitness ==
    /\ \E j \in ScanJobs :
          /\ jobs[j].pc = "done"
          /\ jobs[j].recId \in DOMAIN scannedRecipes
          /\ ScanStatusRead(scannedRecipes[jobs[j].recId].userId, jobs[j].recId) = "failed"
    /\ reply.op = "getScannedRecipe"
    /\ reply.authenticated

\* the runMutation calls of the pipeline that returned, for one document
PatchesOf(fn, id) ==
    Cardinality({j \in 1..Len(jobs) : jobs[j].fn = fn /\ jobs[j].recId = id
                                      /\ jobs[j].patched > 0})

\* C2: the pipeline patches a document at most once, that patch leaves it
\* completed or failed, and a completed or failed document does not change again
\* while it exists.
PatchedOnce ==
    [][ /\ \A j \in 1..Len(jobs') : jobs'[j].patched <= 1
        /\ \A id \in DOMAIN fridgeAnalyses' : PatchesOf("processImage", id)' <= 1
        /\ \A id \in DOMAIN scannedRecipes' : PatchesOf("processRecipeImage", id)' <= 1
        /\ \A j \in FridgeJobs :
             jobs'[j].patched > jobs[j].patched
                => /\ jobs[j].recId \in DOMAIN fridgeAnalyses'
                   /\ fridgeAnalyses'[jobs[j].recId].analysisStatus \in Terminal
        /\ \A j \in ScanJobs :
             jobs'[j].patched > jobs[j].patched
                => /\ jobs[j].recId \in DOMAIN scannedRecipes'
                   /\ scannedRecipes'[jobs[j].recId].scanStatus \in Terminal
        /\ \A id \in DOMAIN fridgeAnalyses \cap DOMAIN fridgeAnalyses' :
             \/ fridgeAnalyses'[id] = fridgeAnalyses[id]
             \/ /\ fridgeAnalyses[id].analysisStatus = "processing"
                /\ \E j \in FridgeJobs : jobs[j].recId = id
                                         /\ jobs'[j].patched = jobs[j].patched + 1
        /\ \A id \in DOMAIN scannedRecipes \cap DOMAIN scannedRecipes' :
             \/ scannedRecipes'[id] = scannedRecipes[id]
             \/ /\ scannedRecipes[id].scanStatus = "processing"
                /\ \E j \in ScanJobs : jobs[j].recId = id
                                       /\ jobs'[j].patched = jobs[j].patched + 1
      ]_vars

\* a job whose first updateAnalysis raised and whose catch block persisted the failure
PatchedOnceWitness ==
    \E j \in FridgeJobs :
        /\ jobs[j].pc = "done"
        /\ jobs[j].error = "Mutation failed"
        /\ jobs[j].patched = 1
        /\ fridgeAnalyses[jobs[j].recId].analysisStatus = "failed"

\* the job has not persisted a result
Unpersisted(j) == jobs[j].patched = 0

ProcessingAnalysis(doc, u) ==
    /\ doc # Null
    /\ doc.userId = u
    /\ doc.analysisStatus = "processing"
    /\ doc.ingredients = <<>>
    /\ doc.recipes = <<>>

ProcessingScan(doc, u) ==
    /\ doc # Null
    /\ doc.userId = u
    /\ doc.scanStatus = "processing"
    /\ doc.ingredients = <<>>
    /\ doc.instructions = <<>>

\* C3 as claimed: until the job of a submission has persisted a result, the
\* submitting user reads the document as processing, with empty lists.
ProcessingUntilPersisted ==
    /\ \A j \in FridgeJobs :
          Unpersisted(j) =>
             \E u \in Users : ProcessingAnalysis(GetAnalysis(u, jobs[j].recId), u)
    /\ \A j \in ScanJobs :
          Unpersisted(j) =>
             \E u \in Users : ProcessingScan(GetScannedRecipe(u, jobs[j].recId), u)

\* C3 as amended: analyzeImage (scanRecipe) by U inserts a document of U, returns
\* with the job scheduled and not started, and until the job has persisted a
\* result U reads the document as processing with empty lists, unless U has
\* deleted it.
ProcessingUntilPersistedOrDeleted ==
    [][ /\ \A u \in Users, s \in Submittable :
             AnalyzeImage(u, s) =>
                \A id \in {nextAnalysisId} :
                   /\ reply'.err = ""
                   /\ ProcessingAnalysis(GetAnalysis(u, id)', u)
                   /\ jobs'[Len(jobs')].recId = id
                   /\ jobs'[Len(jobs')].pc = "scheduled"
        /\ \A u \in Users, s \in Submittable :
             ScanRecipe(u, s) =>
                \A id \in {nextRecipeId} :
                   /\ reply'.err = ""
                   /\ ProcessingScan(GetScannedRecipe(u, id)', u)
                   /\ jobs'[Len(jobs')].recId = id
                   /\ jobs'[Len(jobs')].pc = "scheduled"
        /\ \A id \in DOMAIN fridgeAnalyses \cap DOMAIN fridgeAnalyses' :
             fridgeAnalyses'[id].userId = fridgeAnalyses[id].userId
        /\ \A id \in DOMAIN scannedRecipes \cap DOMAIN scannedRecipes' :
             scannedRecipes'[id].userId = scannedRecipes[id].userId
        /\ \A j \in FridgeJobs' :
             Unpersisted(j)' =>
                /\ jobs'[j].recId \in DOMAIN fridgeAnalyses'
                /\ ProcessingAnalysis(
                      GetAnalysis(fridgeAnalyses[jobs[j].recId].userId, jobs[j].recId),
                      fridgeAnalyses[jobs[j].recId].userId)'
        /\ \A j \in ScanJobs' :
             (Unpersisted(j)' /\ jobs'[j].recId \in DOMAIN scannedRecipes') =>
                ProcessingScan(
                   GetScannedRecipe(scannedRecipes[jobs[j].recId].userId, jobs[j].recId),
                   scannedRecipes[jobs[j].recId].userId)'
      ]_vars

\* a job that has made its inference call, and its document still read as processing
ProcessingUntilPersistedWitness ==
    \E j \in ScanJobs :
        /\ jobs[j].pc = "save"
        /\ jobs[j].recId \in DOMAIN scannedRecipes
        /\ ProcessingScan(GetScannedRecipe(scannedRecipes[jobs[j].recId].userId,
                                           jobs[j].recId),
                          scannedRecipes[jobs[j].recId].userId)

\* the first answer gives no ingredient: null or empty content, the JSON text [],
\* or a text JSON.parse rejects in which no line holds more than a bullet
YieldsNoIngredient(resp) ==
    /\ resp.outcome = "ok"
    /\ resp.choices = 1
    /\ \/ ~Truthy(resp.content)
       \/ /\ resp.content.kind = "json"
          /\ resp.content.val.k = "array"
          /\ Len(resp.content.val.v) = 0
       \/ /\ resp.content.kind = "text"
          /\ \A i \in 1..Len(Split(resp.content.text, "\n")) :
                Trim(StripBullet(Split(resp.content.text, "\n")[i])) = <<>>

FailedAnalysis(doc) ==
    /\ doc.analysisStatus = "failed"
    /\ doc.ingredients = <<>>
    /\ doc.recipes = <<>>

\* C4: a first answer that gives no ingredient sends processImage to its catch
\* block, which leaves the analysis failed with no ingredients and no recipes; no
\* analysis is completed with an empty ingredient list.
NoIngredientsFails ==
    [][ /\ \A j \in FridgeJobs, a \in 1..Len(IngredientAnswers) :
             (IdentifyIngredients(j, a) /\ YieldsNoIngredient(IngredientAnswers[a]))
                => /\ jobs'[j].pc = "catch"
                   /\ jobs'[j].error = "No ingredients identified"
        /\ \A j \in FridgeJobs :
             (jobs[j].pc = "catch" /\ jobs'[j].pc # "catch")
                => /\ jobs'[j].pc = "done"
                   /\ FailedAnalysis(fridgeAnalyses'[jobs[j].recId])
        /\ \A j \in FridgeJobs :
             (jobs'[j].pc = "done" /\ jobs'[j].error = "No ingredients identified")
                => FailedAnalysis(fridgeAnalyses'[jobs[j].recId])
        /\ \A id \in DOMAIN fridgeAnalyses' :
             fridgeAnalyses'[id].analysisStatus = "completed"
                => fridgeAnalyses'[id].ingredients # <<>>
      ]_vars

\* processImage has ended after a first answer without ingredients
NoIngredientsFailsWitness ==
    \E j \in FridgeJobs :
        /\ jobs[j].pc = "done"
        /\ jobs[j].error = "No ingredients identified"
        /\ FailedAnalysis(fridgeAnalyses[jobs[j].recId])

FailedScan(doc) ==
    /\ doc.scanStatus = "failed"
    /\ doc.name = ScanFailed
    /\ doc.ingredients = <<>>
    /\ doc.instructions = <<>>

Ended(j) == jobs[j].pc \in {"done", "crashed"}

\* C5 as claimed: a job that has ended after a failure has left its document
\* failed with the empty payload.
FailuresPersistedAlways ==
    /\ \A j \in FridgeJobs :
          (Ended(j) /\ jobs[j].error # "") =>
             /\ jobs[j].recId \in DOMAIN fridgeAnalyses
             /\ FailedAnalysis(fridgeAnalyses[jobs[j].recId])
    /\ \A j \in ScanJobs :
          (Ended(j) /\ jobs[j].error # "") =>
             /\ jobs[j].recId \in DOMAIN scannedRecipes
             /\ FailedScan(scannedRecipes[jobs[j].recId])

\* C5 as amended: a job that has ended after a failure (error is what its catch block caught)
\* has left its document failed with the empty payload, and a job that has ended
\* has not left its document in processing; a document that is gone has no state.
FailuresPersisted ==
    /\ \A j \in FridgeJobs :
          Ended(j) =>
             /\ jobs[j].recId \in DOMAIN fridgeAnalyses
             /\ fridgeAnalyses[jobs[j].recId].analysisStatus \in Terminal
             /\ jobs[j].error # "" => FailedAnalysis(fridgeAnalyses[jobs[j].recId])
    /\ \A j \in ScanJobs :
          (Ended(j) /\ jobs[j].recId \in DOMAIN scannedRecipes) =>
             /\ scannedRecipes[jobs[j].recId].scanStatus \in Terminal
             /\ jobs[j].error # "" => FailedScan(scannedRecipes[jobs[j].recId])

\* the completed result of a scan was rejected by updateScannedRecipe, and the
\* catch block has persisted the failure
FailuresPersistedWitness ==
    \E j \in ScanJobs :
        /\ jobs[j].pc = "done"
        /\ jobs[j].error = "Mutation failed"
        /\ jobs[j].recId \in DOMAIN scannedRecipes
        /\ FailedScan(scannedRecipes[jobs[j].recId])

\* C6: no job ends with an uncaught error.
NeverCrashes == \A j \in 1..Len(jobs) : jobs[j].pc # "crashed"

\* C7: a point query answers null exactly when the caller is not authenticated,
\* the document does not exist or the document is another user's; otherwise it
\* answers the stored document with the image url as the store resolves it now.
PointQueries ==
    /\ \A u \in Callers, id \in 0..(nextAnalysisId - 1) :
          IF u = NoUser \/ id \notin DOMAIN fridgeAnalyses
                        \/ fridgeAnalyses[id].userId # u
          THEN GetAnalysis(u, id) = Null
          ELSE /\ GetAnalysis(u, id) # Null
               /\ DOMAIN GetAnalysis(u, id) = DOMAIN fridgeAnalyses[id] \cup {"imageUrl"}
               /\ \A f \in DOMAIN fridgeAnalyses[id] :
                     GetAnalysis(u, id)[f] = fridgeAnalyses[id][f]
               /\ GetAnalysis(u, id).imageUrl =
                     (IF fridgeAnalyses[id].imageId \in 1..stored
                      THEN [url |-> fridgeAnalyses[id].imageId] ELSE Null)
    /\ \A u \in Callers, id \in 0..(nextRecipeId - 1) :
          IF u = NoUser \/ id \notin DOMAIN scannedRecipes
                        \/ scannedRecipes[id].userId # u
          THEN GetScannedRecipe(u, id) = Null
          ELSE /\ GetScannedRecipe(u, id) # Null
               /\ DOMAIN GetScannedRecipe(u, id) = DOMAIN scannedRecipes[id] \cup {"imageUrl"}
               /\ \A f \in DOMAIN scannedRecipes[id] :
                     GetScannedRecipe(u, id)[f] = scannedRecipes[id][f]
               /\ GetScannedRecipe(u, id).imageUrl =
                     (IF scannedRecipes[id].imageId \in 1..stored
                      THEN [url |-> scannedRecipes[id].imageId] ELSE Null)

\* a user has a scan with a stored image, which the other user and an
\* unauthenticated caller cannot read
PointQueriesWitness ==
    /\ reply.op = "getScannedRecipe"
    /\ \E a \in DOMAIN scannedRecipes :
          /\ GetScannedRecipe("u1", a) # Null
          /\ GetScannedRecipe("u1", a).imageUrl # Null
          /\ GetScannedRecipe("u2", a) = Null
          /\ GetScannedRecipe(NoUser, a) = Null

\* C9: deleteRecipe by anyone but the owner of an existing scan raises and leaves
\* the store as it is; by the owner it removes the scan and nothing else; a scan
\* that is gone stays gone: it is read as null and is in no list, whatever its
\* job does afterwards.
DeleteIsFinal ==
    [][ /\ \A u \in Callers, id \in 0..(nextRecipeId - 1) :
             DeleteRecipe(u, id) =>
                IF u # NoUser /\ id \in DOMAIN scannedRecipes
                              /\ scannedRecipes[id].userId = u
                THEN /\ reply'.err = ""
                     /\ DOMAIN scannedRecipes' = DOMAIN scannedRecipes \ {id}
                     /\ \A k \in DOMAIN scannedRecipes' :
                           scannedRecipes'[k] = scannedRecipes[k]
                     /\ UNCHANGED <<fridgeAnalyses, nextAnalysisId, nextRecipeId, jobs,
                                    issued, stored>>
                ELSE /\ reply'.err # ""
                     /\ UNCHANGED store
        /\ \A id \in 1..(nextRecipeId - 1) :
             id \notin DOMAIN scannedRecipes => id \notin DOMAIN scannedRecipes'
        /\ \A id \in 1..(nextRecipeId - 1), u \in Callers :
             id \notin DOMAIN scannedRecipes =>
                /\ GetScannedRecipe(u, id)' = Null
                /\ \A i \in 1..Len(GetUserRecipes(u)') : GetUserRecipes(u)'[i].id # id
      ]_vars

\* a scan was deleted while its job was in flight, and the job has ended since
DeleteIsFinalWitness ==
    \E j \in ScanJobs :
        /\ Ended(j)
        /\ jobs[j].patched = 0
        /\ jobs[j].recId \notin DOMAIN scannedRecipes
        /\ \A u \in Users : GetScannedRecipe(u, jobs[j].recId) = Null

Mutations ==
    {"fridge.generateUploadUrl", "recipes.generateUploadUrl", "analyzeImage",
     "scanRecipe", "deleteRecipe"}

\* C10: a mutation called without an authenticated user raises "Not
\* authenticated" and leaves the store as it is: no upload target, no document,
\* no job more, no document less.
UnauthenticatedMutations ==
    [][ (reply'.op \in Mutations /\ ~reply'.authenticated)
           => /\ reply'.err = "Not authenticated"
              /\ UNCHANGED store
      ]_vars

\* deleteRecipe was refused to an unauthenticated caller while there is a scan
UnauthenticatedMutationsWitness ==
    /\ reply = Replied("deleteRecipe", NoUser, "Not authenticated")
    /\ scannedRecipes # <<>>
    /\ stored > 0

----------------------------------------------------------------------------
(* The list queries over long histories: one flow per behaviour, no job steps *)

MaxListRecords == 22
MaxListOthers == 1

\* documents that are not the first user's, and documents that were deleted
ListOthers ==
    Cardinality({id \in DOMAIN fridgeAnalyses : fridgeAnalyses[id].userId # "u1"})
  + Cardinality({id \in DOMAIN scannedRecipes : scannedRecipes[id].userId # "u1"})
  + ((nextRecipeId - 1) - Cardinality(DOMAIN scannedRecipes))

ListMayInsert(u) ==
    \/ u = NoUser
    \/ /\ Inserted < MaxListRecords
       /\ u # "u1" => ListOthers < MaxListOthers

ListMayDelete(u, id) ==
    IF u = NoUser \/ id \notin DOMAIN scannedRecipes THEN TRUE
    ELSE scannedRecipes[id].userId = u => ListOthers < MaxListOthers

ListNext ==
    \/ Return /\ UNCHANGED ui
    \/ \E u \in Callers : /\ nextRecipeId = 1
                          /\ ListMayInsert(u)
                          /\ AnalyzeImage(u, DanglingId) /\ UNCHANGED ui
    \/ \E u \in Callers : /\ nextAnalysisId = 1
                          /\ ListMayInsert(u)
                          /\ ScanRecipe(u, DanglingId) /\ UNCHANGED ui
    \/ \E u \in Callers, id \in 0..(nextRecipeId - 1) :
          ListMayDelete(u, id) /\ DeleteRecipe(u, id) /\ UNCHANGED ui
    \/ \E u \in Callers : Query(u, "getUserAnalyses") /\ UNCHANGED ui
    \/ \E u \in Callers : Query(u, "getUserRecipes") /\ UNCHANGED ui

SpecList == Init /\ [][ListNext]_vars

Smaller(a, b) == IF a < b THEN a ELSE b

\* result is the page of u over table: documents of u only, as stored and with
\* their image url, newest first, the PageLimit newest when there are more
NewestOf(table, u, result) ==
    LET own == {id \in DOMAIN table : table[id].userId = u}
        shown == {result[i].id : i \in 1..Len(result)}
    IN  /\ Len(result) = Smaller(Cardinality(own), PageLimit)
        /\ shown \subseteq own
        /\ \A i \in 1..Len(result) :
              /\ result[i].userId = u
              /\ \A f \in DOMAIN table[result[i].id] :
                    result[i][f] = table[result[i].id][f]
              /\ result[i].imageUrl = GetUrl(result[i].imageId)
        /\ \A i, k \in 1..Len(result) :
              i < k => result[i].creationTime > result[k].creationTime
        /\ \A id \in own \ shown :
              \A i \in 1..Len(result) : table[id].creationTime < result[i].creationTime

\* C8: getUserAnalyses and getUserRecipes answer the caller's own documents only,
\* newest first, all of them when there are at most 20 and the 20 newest
\* otherwise; an unauthenticated caller gets the empty list.
ListsNewestTwenty ==
    /\ GetUserAnalyses(NoUser) = <<>>
    /\ GetUserRecipes(NoUser) = <<>>
    /\ \A u \in Users :
          /\ NewestOf(fridgeAnalyses, u, GetUserAnalyses(u))
          /\ NewestOf(scannedRecipes, u, GetUserRecipes(u))

\* a user with more than 20 scans, next to another user's, has listed them
ListsNewestTwentyWitness ==
    /\ reply.op = "getUserRecipes"
    /\ reply.authenticated
    /\ Len(GetUserRecipes("u1")) = PageLimit
    /\ Cardinality({id \in DOMAIN scannedRecipes : scannedRecipes[id].userId = "u1"})
          > PageLimit
    /\ GetUserRecipes("u2") # <<>>


----------------------------------------------------------------------------
(* Properties, continued *)

Queries == {"getAnalysis", "getUserAnalyses", "getScannedRecipe", "getUserRecipes"}

\* C11 as claimed: every mutation and every query called without an
\* authenticated user raises "Not authenticated".
UnauthenticatedRejected ==
    [][ (reply'.op \in Mutations \cup Queries /\ ~reply'.authenticated)
           => reply'.err = "Not authenticated"
      ]_vars

\* C11 as amended: without an authenticated user every mutation raises "Not
\* authenticated", while every query returns normally: null from getAnalysis and
\* getScannedRecipe, the empty list from getUserAnalyses and getUserRecipes.
UnauthenticatedRejectedOrEmpty ==
    [][ /\ (reply'.op \in Mutations /\ ~reply'.authenticated)
              => reply'.err = "Not authenticated"
        /\ (reply'.op \in Queries /\ ~reply'.authenticated)
              => /\ reply'.err = ""
                 /\ \A id \in 0..(nextAnalysisId - 1) : GetAnalysis(NoUser, id)' = Null
                 /\ \A id \in 0..(nextRecipeId - 1) : GetScannedRecipe(NoUser, id)' = Null
                 /\ GetUserAnalyses(NoUser)' = <<>>
                 /\ GetUserRecipes(NoUser)' = <<>>
                 /\ UNCHANGED store
      ]_vars

\* an unauthenticated caller has listed analyses while there is one
UnauthenticatedRejectedOrEmptyWitness ==
    /\ reply = Replied("getUserAnalyses", NoUser, "")
    /\ fridgeAnalyses # <<>>

\* the job a successful submission schedules
JobFor(fn, id, storageId) ==
    [fn |-> fn, recId |-> id, storageId |-> storageId, pc |-> "scheduled",
     ingredients |-> JArr(<<>>), recipes |-> JArr(<<>>),
     recipeData |-> DefaultRecipeData, error |-> "", patched |-> 0, calls |-> 0]

\* C12: a successful analyzeImage or scanRecipe inserts one document under an id
\* that no document has and no job carries, and schedules one job carrying that
\* id, in one step; no other step adds a job; no two jobs of one function carry
\* the same document id.
OneJobPerRecord ==
    [][ /\ \A u \in Users, s \in Submittable :
             AnalyzeImage(u, s) =>
                \A id \in {nextAnalysisId} :
                   /\ id \notin DOMAIN fridgeAnalyses
                   /\ \A j \in FridgeJobs : jobs[j].recId # id
                   /\ DOMAIN fridgeAnalyses' = DOMAIN fridgeAnalyses \cup {id}
                   /\ \A k \in DOMAIN fridgeAnalyses : fridgeAnalyses'[k] = fridgeAnalyses[k]
                   /\ jobs' = Append(jobs, JobFor("processImage", id, s))
                   /\ UNCHANGED scannedRecipes
        /\ \A u \in Users, s \in Submittable :
             ScanRecipe(u, s) =>
                \A id \in {nextRecipeId} :
                   /\ id \notin DOMAIN scannedRecipes
                   /\ \A j \in ScanJobs : jobs[j].recId # id
                   /\ DOMAIN scannedRecipes' = DOMAIN scannedRecipes \cup {id}
                   /\ \A k \in DOMAIN scannedRecipes : scannedRecipes'[k] = scannedRecipes[k]
                   /\ jobs' = Append(jobs, JobFor("processRecipeImage", id, s))
                   /\ UNCHANGED fridgeAnalyses
        /\ Len(jobs') # Len(jobs) =>
              /\ Len(jobs') = Len(jobs) + 1
              /\ reply'.op \in {"analyzeImage", "scanRecipe"}
              /\ reply'.err = ""
        /\ \A i, k \in 1..Len(jobs') :
              (i # k /\ jobs'[i].fn = jobs'[k].fn) => jobs'[i].recId # jobs'[k].recId
      ]_vars

\* the same storage id was submitted twice and both jobs are pending
OneJobPerRecordWitness ==
    \E i, k \in ScanJobs :
        /\ i # k
        /\ jobs[i].storageId = jobs[k].storageId
        /\ jobs[i].recId # jobs[k].recId
        /\ jobs[i].pc = "scheduled"
        /\ jobs[k].pc = "scheduled"
        /\ {jobs[i].recId, jobs[k].recId} \subseteq DOMAIN scannedRecipes


\* a JSON value that is an array of strings
StringList(j) == j.k = "array" /\ \A i \in 1..Len(j.v) : j.v[i].k = "string"

\* a JSON value that is a recipe object of the fridge flow
ShapedRecipe(j) ==
    /\ j.k = "object"
    /\ DOMAIN j.v = {"name", "ingredients", "instructions", "cookingTime", "difficulty"}
    /\ j.v.name.k = "string"
    /\ StringList(j.v.ingredients)
    /\ StringList(j.v.instructions)
    /\ j.v.cookingTime.k = "string"
    /\ j.v.difficulty.k = "string"

RecipeList(j) == j.k = "array" /\ \A i \in 1..Len(j.v) : ShapedRecipe(j.v[i])

\* recipe data (a record of JSON values) with name, the two lists and optional
\* metadata, of the right types and nothing else
ShapedScanData(data) ==
    /\ {"name", "ingredients", "instructions"} \subseteq DOMAIN data
    /\ DOMAIN data \subseteq {"name", "ingredients", "instructions",
                              "cookingTime", "servings", "difficulty", "category"}
    /\ StringList(data.ingredients)
    /\ StringList(data.instructions)
    /\ \A f \in DOMAIN data \ {"ingredients", "instructions"} : data[f].k = "string"

SomeListFilled(data) == Len(data.ingredients.v) > 0 \/ Len(data.instructions.v) > 0

JsonAnswer(resp) ==
    resp.outcome = "ok" /\ resp.choices = 1 /\ resp.content.kind = "json"

\* the document holds the recipe data, field by field
HoldsRecipeData(doc, data) ==
    /\ doc.name = data.name.v
    /\ Len(doc.ingredients) = Len(data.ingredients.v)
    /\ \A i \in 1..Len(doc.ingredients) : doc.ingredients[i] = data.ingredients.v[i].v
    /\ Len(doc.instructions) = Len(data.instructions.v)
    /\ \A i \in 1..Len(doc.instructions) : doc.instructions[i] = data.instructions.v[i].v
    /\ \A f \in {"cookingTime", "servings", "difficulty", "category"} :
          doc[f] = (IF f \in DOMAIN data THEN data[f].v ELSE Undefined)

\* the document holds the ingredients and the recipes, entry by entry
HoldsAnalysis(doc, ingredients, recipes) ==
    /\ Len(doc.ingredients) = Len(ingredients.v)
    /\ \A i \in 1..Len(doc.ingredients) : doc.ingredients[i] = ingredients.v[i].v
    /\ Len(doc.recipes) = Len(recipes.v)
    /\ \A i \in 1..Len(doc.recipes) :
          /\ doc.recipes[i].name = recipes.v[i].v.name.v
          /\ doc.recipes[i].ingredients = Strings(recipes.v[i].v.ingredients)
          /\ doc.recipes[i].instructions = Strings(recipes.v[i].v.instructions)
          /\ doc.recipes[i].cookingTime = recipes.v[i].v.cookingTime.v
          /\ doc.recipes[i].difficulty = recipes.v[i].v.difficulty.v

Overridden(parsed) ==
    [f \in DOMAIN DefaultRecipeData \cup DOMAIN parsed.v |->
        IF f \in DOMAIN parsed.v THEN parsed.v[f] ELSE DefaultRecipeData[f]]

JsonObjectAnswer(resp) == JsonAnswer(resp) /\ resp.content.val.k = "object"

BothListsEmpty(data) ==
    /\ data.ingredients.k = "array" /\ Len(data.ingredients.v) = 0
    /\ data.instructions.k = "array" /\ Len(data.instructions.v) = 0

\* C20: when parsing or extraction leaves both lists empty the job throws "No
\* recipe information could be extracted from the image" and its catch block
\* leaves the document, if it still exists, failed; every completed scan has an
\* ingredient or an instruction.
EmptyScanFails ==
    [][ /\ \A j \in ScanJobs, a \in 1..Len(ScanAnswers) :
             ( /\ ExtractRecipe(j, a)
               /\ ScanAnswers[a].outcome = "ok"
               /\ ~ParseRecipeData(ScanAnswers[a]).threw
               /\ BothListsEmpty(ParseRecipeData(ScanAnswers[a]).val) )
                => /\ jobs'[j].pc = "catch"
                   /\ jobs'[j].error = "No recipe information could be extracted from the image"
        /\ \A j \in ScanJobs :
             (jobs[j].pc = "catch" /\ jobs'[j].pc # "catch"
                                   /\ jobs[j].recId \in DOMAIN scannedRecipes)
                => /\ jobs'[j].pc = "done"
                   /\ FailedScan(scannedRecipes'[jobs[j].recId])
        /\ \A id \in DOMAIN scannedRecipes' :
             scannedRecipes'[id].scanStatus = "completed"
                => \/ scannedRecipes'[id].ingredients # <<>>
                   \/ scannedRecipes'[id].instructions # <<>>
      ]_vars

\* a scan whose answer gave neither ingredients nor instructions has failed
EmptyScanFailsWitness ==
    \E j \in ScanJobs :
        /\ jobs[j].pc = "done"
        /\ jobs[j].error = "No recipe information could be extracted from the image"
        /\ jobs[j].recId \in DOMAIN scannedRecipes
        /\ FailedScan(scannedRecipes[jobs[j].recId])


----------------------------------------------------------------------------
(* The text fallbacks over many answers: one job that has resolved its image, *)
(* and completions that answer with a text JSON.parse rejects                 *)

MaxKindLines == 2          \* lines of a text built from the line kinds
MaxItemLines == 11         \* lines of a text of items, for the lists capped at 10
MaxScanItemLines == 16     \* lines of a text of items, for the list capped at 15

Letters == <<"a", "b", "c", "d", "e", "f", "g", "h", "i", "j", "k", "l", "m", "n",
             "o", "p", "q", "r">>

RECURSIVE Join(_)
Join(lines) ==
    IF lines = <<>> THEN <<>>
    ELSE IF Len(lines) = 1 THEN lines[1]
    ELSE lines[1] \o <<"\n">> \o Join(Tail(lines))

KindTexts(kinds) == {Join(ls) : ls \in UNION {[1..n -> kinds] : n \in 1..MaxKindLines}}

\* n lines, line i made from letter i, but line gap (if any) replaced
ItemTexts(max, Line(_), other) ==
    {Join([i \in 1..n |-> IF i = gap THEN other ELSE Line(i)]) :
        n \in 1..max, gap \in 0..max}

NumberedA == <<"1", ".", " ", "a">>
NumberedB == <<"2", ")", " ", "b">>
Capitalised == <<"M", "i", "x", " ", "t", "h", "e", " ", "f", "l", "o", "u", "r", " ", "a", "n", "d", " ", "m", "i", "l", "k", " ", "w", "e", "l", "l">>
LowerCased == <<"t", "h", "e", "n", " ", "m", "i", "x", " ", "t", "h", "e", " ", "f", "l", "o", "u", "r", " ", "a", "n", "d", " ", "m", "i", "l", "k">>

FridgeLineKinds ==
    {<<"a">>, <<"-", " ", "a">>, <<"*", "b">>, <<Bullet, " ", "c">>, NumberedA, NumberedB,
     <<>>, <<" ">>, <<"-">>, <<" ", "-", " ", "b", " ">>}

LetterLine(i) == <<Letters[i]>>

FridgeTexts == KindTexts(FridgeLineKinds) \cup ItemTexts(MaxItemLines, LetterLine, <<" ">>)

ScanLineKinds ==
    {Flour, <<"-", " ", "a">>, <<"1", ".", " ", "b">>, <<Bullet, "c">>, <<"-">>,
     Capitalised, LowerCased, <<"m", "i", "x", " ", "i", "t">>, <<"x">>}

DashedLine(i) == <<"-", Letters[i]>>

StirLine(i) == <<"s", "t", "i", "r", " ", "t", "h", "e", " ", "b", "a", "t", "t", "e", "r", " ", "w", "e", "l", "l", " ">> \o <<Letters[i]>>

ScanTexts ==
    KindTexts(ScanLineKinds)
       \cup ItemTexts(MaxScanItemLines, DashedLine, <<"x">>)
       \cup ItemTexts(MaxItemLines, StirLine, <<"x">>)

\* what each text makes of the synchronous code that follows the completion
TextIngredientOutcomes == [t \in FridgeTexts |-> IngredientsStep(Answer(TextContent(t)))]

TextRecipeDataOutcomes == [t \in ScanTexts |-> RecipeDataStep(Answer(TextContent(t)))]

\* texts of the second completion of the fridge flow
RecipeTexts == FridgeLineKinds \ {<<>>}

\* the first completion answers with the text t
IdentifyFromText(j, t) ==
    LET out == TextIngredientOutcomes[t]
    IN /\ Idle
       /\ jobs[j].fn = "processImage"
       /\ jobs[j].pc = "infer"
       /\ jobs' = [jobs EXCEPT ![j] =
                     IF out.threw THEN Caught(@, out.err)
                     ELSE [Requested(@, "infer2") EXCEPT !.ingredients = out.val]]
       /\ reply' = NoReply
       /\ UNCHANGED <<fridgeAnalyses, scannedRecipes, nextAnalysisId, nextRecipeId,
                      issued, stored>>

\* the completion of the scan answers with the text t
ExtractFromText(j, t) ==
    LET out == TextRecipeDataOutcomes[t]
    IN /\ Idle
       /\ jobs[j].fn = "processRecipeImage"
       /\ jobs[j].pc = "infer"
       /\ jobs' = [jobs EXCEPT ![j] =
                     IF out.threw THEN Caught(@, out.err)
                     ELSE [@ EXCEPT !.pc = "save", !.recipeData = out.val]]
       /\ reply' = NoReply
       /\ UNCHANGED <<fridgeAnalyses, scannedRecipes, nextAnalysisId, nextRecipeId,
                      issued, stored>>

\* u1 has uploaded a file and submitted it, and the job has resolved its url
TextInit ==
    /\ issued = 1
    /\ stored = 1
    /\ reply = NoReply
    /\ ui = NoUi
    /\ \/ /\ fridgeAnalyses = (1 :> NewAnalysis("u1", 1, 1))
          /\ scannedRecipes = <<>>
          /\ nextAnalysisId = 2
          /\ nextRecipeId = 1
          /\ jobs = <<Requested(NewJob("processImage", 1, 1), "infer")>>
       \/ /\ fridgeAnalyses = <<>>
          /\ scannedRecipes = (1 :> NewRecipe("u1", 1, 1))
          /\ nextAnalysisId = 1
          /\ nextRecipeId = 2
          /\ jobs = <<Requested(NewJob("processRecipeImage", 1, 1), "infer")>>

TextNext ==
    \/ \E j \in 1..Len(jobs), t \in FridgeTexts : IdentifyFromText(j, t) /\ UNCHANGED ui
    \/ \E j \in 1..Len(jobs), a \in 1..Len(IngredientAnswers) : IdentifyIngredients(j, a) /\ UNCHANGED ui
    \/ \E j \in 1..Len(jobs), a \in 1..Len(RecipeAnswers) :
          GenerateRecipes(j, RecipeAnswers[a]) /\ UNCHANGED ui
    \/ \E j \in 1..Len(jobs), t \in RecipeTexts :
          GenerateRecipes(j, Answer(TextContent(t))) /\ UNCHANGED ui
    \/ \E j \in 1..Len(jobs) : SaveAnalysis(j) /\ UNCHANGED ui
    \/ \E j \in 1..Len(jobs) : FailAnalysis(j) /\ UNCHANGED ui
    \/ \E j \in 1..Len(jobs), t \in ScanTexts : ExtractFromText(j, t) /\ UNCHANGED ui
    \/ \E j \in 1..Len(jobs) : SaveScannedRecipe(j) /\ UNCHANGED ui
    \/ \E j \in 1..Len(jobs) : FailScannedRecipe(j) /\ UNCHANGED ui

SpecText == TextInit /\ [][TextNext]_vars


----------------------------------------------------------------------------
(* Properties of the text fallbacks *)

LinesOf(t) == Split(t, "\n")

\* a leading number marker: digits, then "." or ")", then any white space
StripNumberMarker(line) ==
    LET n == CHOOSE k \in 0..Len(line) :
                 /\ \A i \in 1..k : line[i] \in Digits
                 /\ k < Len(line) => line[k + 1] \notin Digits
    IN IF n > 0 /\ n < Len(line) /\ line[n + 1] \in {".", ")"}
       THEN TrimStart(SubSeq(line, n + 2, Len(line)))
       ELSE line

\* the list C15 describes: bullet and number markers removed, trimmed, the
\* empty results dropped, the first 10 kept
MarkerFreeItems(t) ==
    LET lines == LinesOf(t)
    IN Slice(NonEmpty([i \in 1..Len(lines) |->
                          Trim(StripNumberMarker(StripBullet(lines[i])))]), 10)

\* C15: when the first answer of the fridge flow is a text JSON.parse rejects,
\* the ingredients the job goes on with are the lines of the text with a
\* leading bullet marker and a leading number marker removed, trimmed, without
\* the empty ones, the first 10 in order.
MarkersStripped ==
    [][\A j \in 1..Len(jobs) :
          jobs[j].pc = "infer" =>
             \A t \in FridgeTexts :
                (IdentifyFromText(j, t) /\ jobs'[j].pc = "infer2")
                   => jobs'[j].ingredients = JStrings(MarkerFreeItems(t))]_vars


\* the first n entries of a list, all of them when it has fewer
FirstOf(list, n) == SubSeq(list, 1, Smaller(Len(list), n))

\* every entry the fridge fallback finds in a text, in the order of the lines
AllItems(t) ==
    LET lines == LinesOf(t)
    IN NonEmpty([i \in 1..Len(lines) |-> Trim(StripBullet(lines[i]))])

\* every ingredient and every instruction the scan heuristic finds in a text
AllScanIngredients(t) ==
    LET found == SelectSeq(ScanLines(t), IsIngredientLine)
    IN [i \in 1..Len(found) |-> Trim(StripMarkers(found[i]))]

AllScanInstructions(t) == SelectSeq(ScanLines(t), IsInstructionLine)

\* C16: the lists a text fallback produces are the first matching entries in the
\* order of the text, at most 10 ingredients for an analysis, at most 15
\* ingredients and at most 10 instructions for a scan, and the save persists
\* them as they are.
BoundedFallbacks ==
    [][\A j \in 1..Len(jobs) :
          /\ jobs[j].pc = "infer" => \A t \in FridgeTexts :
                (IdentifyFromText(j, t) /\ jobs'[j].pc = "infer2")
                   => /\ jobs'[j].ingredients = JStrings(FirstOf(AllItems(t), 10))
                      /\ Len(jobs'[j].ingredients.v) <= 10
          /\ jobs[j].pc = "infer" => \A t \in ScanTexts :
                (ExtractFromText(j, t) /\ jobs'[j].pc = "save")
                   => /\ jobs'[j].recipeData.ingredients
                            = JStrings(FirstOf(AllScanIngredients(t), 15))
                      /\ jobs'[j].recipeData.instructions
                            = JStrings(FirstOf(AllScanInstructions(t), 10))
                      /\ Len(jobs'[j].recipeData.ingredients.v) <= 15
                      /\ Len(jobs'[j].recipeData.instructions.v) <= 10
          /\ (SaveAnalysis(j) /\ jobs'[j].pc = "done" /\ jobs'[j].error = "")
                => /\ fridgeAnalyses'[jobs[j].recId].analysisStatus = "completed"
                   /\ fridgeAnalyses'[jobs[j].recId].ingredients
                         = Strings(jobs[j].ingredients)
          /\ (SaveScannedRecipe(j) /\ jobs'[j].pc = "done" /\ jobs'[j].error = "")
                => /\ scannedRecipes'[jobs[j].recId].scanStatus = "completed"
                   /\ HoldsRecipeData(scannedRecipes'[jobs[j].recId], jobs[j].recipeData)
      ]_vars

\* a completed scan holds the full 15 ingredients and a name, all found by the heuristic
BoundedFallbacksWitness ==
    \E id \in DOMAIN scannedRecipes :
       /\ scannedRecipes[id].scanStatus = "completed"
       /\ scannedRecipes[id].ingredients = [i \in 1..15 |-> <<Letters[i]>>]
       /\ scannedRecipes[id].instructions = <<>>


FixedSteps == <<HeatOil, AddIngredients, StirFry, SeasonAndServe>>

\* recipes is one recipe made of the first min(4, n) of the ingredients and the
\* four fixed steps
OneFallbackRecipe(recipes, ingredients) ==
    /\ recipes.k = "array"
    /\ Len(recipes.v) = 1
    /\ recipes.v[1].k = "object"
    /\ DOMAIN recipes.v[1].v = RecipeFields
    /\ recipes.v[1].v.ingredients = JArr(FirstOf(ingredients.v, 4))
    /\ recipes.v[1].v.instructions = JStrings(FixedSteps)

\* the second answer is a text JSON.parse rejects: whatever the text, the job
\* goes on with the one fallback recipe and the ingredients it had
FallbackWhateverTheText ==
    \A j \in FridgeJobs :
       jobs[j].pc = "infer2" =>
          \A t \in RecipeTexts :
             GenerateRecipes(j, Answer(TextContent(t)))
                => /\ jobs'[j].pc = "save"
                   /\ OneFallbackRecipe(jobs'[j].recipes, jobs[j].ingredients)
                   /\ jobs'[j].ingredients = jobs[j].ingredients

\* the save of a job that holds the fallback recipe leaves the analysis completed
\* with this one recipe
FallbackSaved(j) ==
    LET doc == fridgeAnalyses'[jobs[j].recId]
    IN /\ doc.analysisStatus = "completed"
       /\ Len(doc.recipes) = 1
       /\ doc.recipes[1].ingredients = FirstOf(doc.ingredients, 4)
       /\ doc.recipes[1].instructions = FixedSteps
       /\ HoldsAnalysis(doc, jobs[j].ingredients, jobs[j].recipes)

\* C17 as claimed: when JSON.parse rejects the second answer the analysis ends
\* completed with exactly one recipe, made of the first min(4, n) detected
\* ingredients and the four fixed steps, whatever the text of the answer.
FallbackRecipeCompletes ==
    [][ /\ FallbackWhateverTheText
        /\ \A j \in FridgeJobs :
              (SaveAnalysis(j) /\ OneFallbackRecipe(jobs[j].recipes, jobs[j].ingredients))
                 => FallbackSaved(j)
      ]_vars

\* C17 as amended: the same, for detected ingredients that are all strings.
FallbackRecipeCompletesForStrings ==
    [][ /\ FallbackWhateverTheText
        /\ \A j \in FridgeJobs :
              ( /\ SaveAnalysis(j)
                /\ OneFallbackRecipe(jobs[j].recipes, jobs[j].ingredients)
                /\ StringList(jobs[j].ingredients) )
                 => FallbackSaved(j)
      ]_vars

\* a completed analysis of more than four ingredients with the fallback recipe
FallbackRecipeCompletesForStringsWitness ==
    \E id \in DOMAIN fridgeAnalyses :
       /\ fridgeAnalyses[id].analysisStatus = "completed"
       /\ Len(fridgeAnalyses[id].ingredients) > 4
       /\ Len(fridgeAnalyses[id].recipes) = 1
       /\ fridgeAnalyses[id].recipes[1].name = SimpleStirFry
       /\ fridgeAnalyses[id].recipes[1].ingredients = SubSeq(fridgeAnalyses[id].ingredients, 1, 4)
       /\ fridgeAnalyses[id].recipes[1].instructions = FixedSteps


\* C18: when the answer of a scan is a text JSON.parse rejects and one of its
\* lines is "2 cups flour", the recipe data hold the ingredient "2 cups flour",
\* and so does the scanned recipe once saved.
UnitLineKept ==
    [][\A j \in ScanJobs :
          /\ jobs[j].pc = "infer" =>
                \A t \in ScanTexts :
                   (ExtractFromText(j, t) /\ \E i \in 1..Len(LinesOf(t)) : LinesOf(t)[i] = Flour)
                      => /\ jobs'[j].pc = "save"
                         /\ \E k \in 1..Len(jobs'[j].recipeData.ingredients.v) :
                               jobs'[j].recipeData.ingredients.v[k] = JStr(Flour)
          /\ (SaveScannedRecipe(j) /\ jobs'[j].pc = "done")
                => HoldsRecipeData(scannedRecipes'[jobs[j].recId], jobs[j].recipeData)
      ]_vars

VerbsOfClaim == ActionVerbs

UnitsOfClaim == {<<"c", "u", "p">>, <<"t", "b", "s", "p">>, <<"t", "s", "p">>}

\* a line the rule of C19 matches: longer than 20 characters with an action verb
\* in any letter case, or starting with a bullet or a digit, or naming a unit
MatchesRule(line) ==
    \/ Len(line) > 20 /\ \E verb \in VerbsOfClaim : Includes(ToLowerCase(line), verb)
    \/ Trim(line) # <<>> /\ Head(Trim(line)) \in Digits \cup Bullets
    \/ \E unit \in UnitsOfClaim : Includes(ToLowerCase(line), unit)

\* C19: when the answer of a scan is a text JSON.parse rejects and one of its
\* lines matches the rule, the ingredients or the instructions of the recipe data
\* are not empty and the scanned recipe ends completed.
MatchingLineCompletes ==
    [][\A j \in ScanJobs :
          /\ jobs[j].pc = "infer" =>
                \A t \in ScanTexts :
                   (ExtractFromText(j, t) /\ \E i \in 1..Len(LinesOf(t)) : MatchesRule(LinesOf(t)[i]))
                      => /\ jobs'[j].pc = "save"
                         /\ SomeListFilled(jobs'[j].recipeData)
          /\ (SaveScannedRecipe(j) /\ SomeListFilled(jobs[j].recipeData))
                => /\ jobs'[j].pc = "done"
                   /\ scannedRecipes'[jobs[j].recId].scanStatus = "completed"
      ]_vars


----------------------------------------------------------------------------
(* Properties of the stored payload *)

EmptyPayload(doc) == doc.ingredients = <<>> /\ doc.recipes = <<>>

\* C21 as claimed: an analysis in processing or failed holds no ingredients and
\* no recipes, and a completed analysis holds at least one ingredient and at
\* least one recipe.
PayloadByStatus ==
    \A id \in DOMAIN fridgeAnalyses :
       LET doc == fridgeAnalyses[id]
       IN /\ doc.analysisStatus \in {"processing", "failed"} => EmptyPayload(doc)
          /\ doc.analysisStatus = "completed"
                => doc.ingredients # <<>> /\ doc.recipes # <<>>

\* C21 as amended: an analysis in processing or failed holds no ingredients and
\* no recipes, and a completed analysis holds at least one ingredient; its
\* recipes may be empty.
PayloadByStatusButRecipes ==
    \A id \in DOMAIN fridgeAnalyses :
       LET doc == fridgeAnalyses[id]
       IN /\ doc.analysisStatus \in {"processing", "failed"} => EmptyPayload(doc)
          /\ doc.analysisStatus = "completed" => doc.ingredients # <<>>

\* a completed analysis with ingredients and no recipe
PayloadByStatusButRecipesWitness ==
    \E id \in DOMAIN fridgeAnalyses :
       /\ fridgeAnalyses[id].analysisStatus = "completed"
       /\ fridgeAnalyses[id].ingredients # <<>>
       /\ fridgeAnalyses[id].recipes = <<>>


----------------------------------------------------------------------------
(* Progress: the scheduler runs every function it was given, and every call a *)
(* function awaits returns or raises                                          *)

\* the next step of function j, whatever the call it awaits answers
JobStep(j) ==
    /\ j \in 1..Len(jobs)
    /\ \/ ResolveImage(j)
       \/ \E a \in 1..Len(IngredientAnswers) : IdentifyIngredients(j, a)
       \/ \E a \in 1..Len(RecipeAnswers) : GenerateRecipes(j, RecipeAnswers[a])
       \/ SaveAnalysis(j)
       \/ FailAnalysis(j)
       \/ ResolveRecipeImage(j)
       \/ \E a \in 1..Len(ScanAnswers) : ExtractRecipe(j, a)
       \/ SaveScannedRecipe(j)
       \/ FailScannedRecipe(j)
    /\ UNCHANGED ui

\* a step of a function waits for the answer of a client call to be delivered, so
\* it is enabled again and again rather than continuously
SpecFair ==
    /\ Spec
    /\ WF_vars(Return /\ UNCHANGED ui)
    /\ \A j \in 1..MaxRecords : SF_vars(JobStep(j))

\* C22: under these assumptions every analysis in processing eventually is
\* completed or failed, and every scan in processing eventually is completed,
\* failed or deleted.
ProcessingEnds ==
    \A id \in 1..MaxRecords :
       /\ (id \in DOMAIN fridgeAnalyses /\ fridgeAnalyses[id].analysisStatus = "processing")
             ~> (id \in DOMAIN fridgeAnalyses /\ fridgeAnalyses[id].analysisStatus \in Terminal)
       /\ (id \in DOMAIN scannedRecipes /\ scannedRecipes[id].scanStatus = "processing")
             ~> (IF id \in DOMAIN scannedRecipes
                 THEN scannedRecipes[id].scanStatus \in Terminal
                 ELSE TRUE)

\* an analysis that failed after its first completion had answered
ProcessingEndsWitness ==
    \E j \in FridgeJobs :
       /\ jobs[j].pc = "done"
       /\ jobs[j].error = "No ingredients identified"
       /\ fridgeAnalyses[jobs[j].recId].analysisStatus = "failed"


----------------------------------------------------------------------------
(* Properties of the calls of the inference client *)

\* C25: a function calls the inference client only with a url the store resolved,
\* processImage calls it a second time only once the first call has returned a
\* non-empty ingredient list, no function calls it more often (two calls for
\* processImage, one for processRecipeImage), and once a function has ended it
\* makes no call, no other function is given its record, and its record, if
\* failed, is left as it is.
CallsInOrder ==
    [][\A j \in 1..Len(jobs) :
          /\ jobs'[j].calls \in {jobs[j].calls, jobs[j].calls + 1}
          /\ jobs'[j].calls <= (IF jobs[j].fn = "processImage" THEN 2 ELSE 1)
          /\ jobs'[j].calls # jobs[j].calls =>
                \/ /\ jobs[j].calls = 0
                   /\ jobs[j].pc = "scheduled"
                   /\ GetUrl(jobs[j].storageId) # Null
                \/ /\ jobs[j].fn = "processImage"
                   /\ jobs[j].calls = 1
                   /\ jobs[j].pc = "infer"
                   /\ jobs'[j].pc = "infer2"
                   /\ Len(jobs'[j].ingredients.v) > 0
          /\ Ended(j) =>
                /\ jobs'[j] = jobs[j]
                /\ \A k \in 1..Len(jobs') :
                      (jobs'[k].fn = jobs[j].fn /\ jobs'[k].recId = jobs[j].recId) => k = j
                /\ (jobs[j].fn = "processImage"
                      /\ fridgeAnalyses[jobs[j].recId].analysisStatus = "failed")
                      => fridgeAnalyses'[jobs[j].recId] = fridgeAnalyses[jobs[j].recId]
                /\ (jobs[j].fn = "processRecipeImage"
                      /\ jobs[j].recId \in DOMAIN scannedRecipes
                      /\ jobs[j].recId \in DOMAIN scannedRecipes'
                      /\ scannedRecipes[jobs[j].recId].scanStatus = "failed")
                      => scannedRecipes'[jobs[j].recId] = scannedRecipes[jobs[j].recId]
      ]_vars

\* a submission with a storage id the store does not know has failed without a call
CallsInOrderWitness ==
    \E j \in FridgeJobs :
       /\ jobs[j].pc = "done"
       /\ jobs[j].calls = 0
       /\ jobs[j].error = "Image not found"
       /\ fridgeAnalyses[jobs[j].recId].analysisStatus = "failed"


----------------------------------------------------------------------------
(* Concurrent submissions: several records and their functions, interleaved *)

MaxFrameRecords == 2     \* files uploaded, and documents ever inserted

\* the files are uploaded, nothing is submitted yet
FrameInit ==
    /\ fridgeAnalyses = <<>>
    /\ scannedRecipes = <<>>
    /\ nextAnalysisId = 1
    /\ nextRecipeId = 1
    /\ jobs = <<>>
    /\ issued = MaxFrameRecords
    /\ stored = MaxFrameRecords
    /\ reply = NoReply
    /\ ui = NoUi

\* who submits next: the first submission is u1's, the users being alike
FrameUsers == IF Inserted = 0 THEN {"u1"} ELSE Users

FrameNext ==
    \/ Return /\ UNCHANGED ui
    \/ \E u \in FrameUsers : Inserted < MaxFrameRecords /\ AnalyzeImage(u, Inserted + 1) /\ UNCHANGED ui
    \/ \E u \in FrameUsers : Inserted < MaxFrameRecords /\ ScanRecipe(u, Inserted + 1) /\ UNCHANGED ui
    \/ \E id \in DOMAIN scannedRecipes : DeleteRecipe(scannedRecipes[id].userId, id) /\ UNCHANGED ui
    \/ \E j \in 1..Len(jobs) : ResolveImage(j) /\ UNCHANGED ui
    \/ \E j \in 1..Len(jobs), a \in 1..Len(IngredientAnswers) :
          IdentifyIngredients(j, a) /\ UNCHANGED ui
    \/ \E j \in 1..Len(jobs), a \in 1..Len(RecipeAnswers) :
          GenerateRecipes(j, RecipeAnswers[a]) /\ UNCHANGED ui
    \/ \E j \in 1..Len(jobs) : SaveAnalysis(j) /\ UNCHANGED ui
    \/ \E j \in 1..Len(jobs) : FailAnalysis(j) /\ UNCHANGED ui
    \/ \E j \in 1..Len(jobs) : ResolveRecipeImage(j) /\ UNCHANGED ui
    \/ \E j \in 1..Len(jobs), a \in 1..Len(ScanAnswers) :
          ExtractRecipe(j, a) /\ UNCHANGED ui
    \/ \E j \in 1..Len(jobs) : SaveScannedRecipe(j) /\ UNCHANGED ui
    \/ \E j \in 1..Len(jobs) : FailScannedRecipe(j) /\ UNCHANGED ui

SpecFrame == FrameInit /\ [][FrameNext]_vars


AnalysisPayload == {"ingredients", "recipes", "analysisStatus"}

ScanPayload == {"name", "ingredients", "instructions", "cookingTime", "servings",
                "difficulty", "category", "scanStatus"}

\* function j has made one more runMutation that returned
PatchedBy(j, fn, id) ==
    /\ jobs[j].fn = fn
    /\ jobs[j].recId = id
    /\ jobs[j].pc \in {"save", "catch"}
    /\ jobs'[j].patched = jobs[j].patched + 1

\* C26: a document changes only in the persistence step of the function that
\* carries its id, and then only in its payload and its status; a submission
\* inserts a document of the submitting user and of the submitted image, and
\* userId and imageId stay as inserted; documents are never changed by another
\* record's function, whoever owns them.
OnlyOwnRecordPatched ==
    [][ /\ \A id \in DOMAIN fridgeAnalyses :
              /\ id \in DOMAIN fridgeAnalyses'
              /\ fridgeAnalyses'[id] # fridgeAnalyses[id] =>
                    /\ \E j \in 1..Len(jobs) : PatchedBy(j, "processImage", id)
                    /\ \A f \in DOMAIN fridgeAnalyses[id] \ AnalysisPayload :
                          fridgeAnalyses'[id][f] = fridgeAnalyses[id][f]
        /\ \A id \in DOMAIN scannedRecipes \cap DOMAIN scannedRecipes' :
              scannedRecipes'[id] # scannedRecipes[id] =>
                 /\ \E j \in 1..Len(jobs) : PatchedBy(j, "processRecipeImage", id)
                 /\ \A f \in DOMAIN scannedRecipes[id] \ ScanPayload :
                       scannedRecipes'[id][f] = scannedRecipes[id][f]
        /\ \A u \in Users, s \in {Inserted + 1} :
              /\ AnalyzeImage(u, s) =>
                    \A id \in {nextAnalysisId} :
                       /\ fridgeAnalyses'[id].userId = u
                       /\ fridgeAnalyses'[id].imageId = s
              /\ ScanRecipe(u, s) =>
                    \A id \in {nextRecipeId} :
                       /\ scannedRecipes'[id].userId = u
                       /\ scannedRecipes'[id].imageId = s
      ]_vars

\* two analyses of one user, the later one completed while the earlier one is
\* still in processing
OnlyOwnRecordPatchedWitness ==
    /\ DOMAIN fridgeAnalyses = {1, 2}
    /\ fridgeAnalyses[1].userId = fridgeAnalyses[2].userId
    /\ fridgeAnalyses[1].analysisStatus = "processing"
    /\ fridgeAnalyses[2].analysisStatus = "completed"
    /\ fridgeAnalyses[1].imageId = 1
    /\ fridgeAnalyses[2].imageId = 2


----------------------------------------------------------------------------
(* The client: FridgeAnalyzer (App.tsx lines 196-259) and RecipeScanner      *)
(* (RecipeScanner.tsx).  A handler runs up to its next await in one step; the *)
(* call it awaits is served by the store in a step of its own.                *)

MaxHandlers == 2     \* handler invocations ever started

SignedIn == "u1"     \* the user of the client; a call after the session ended is NoUser's

\* a handler invocation: fn and component, where it waits (pc), the recipe it was
\* called with, currentRecipeId as its closure captured it, and what its awaits
\* have answered so far
NewCall(fn, c, pc, recipeId, seen) ==
    [fn |-> fn, comp |-> c, pc |-> pc, recipeId |-> recipeId, seen |-> seen,
     storageId |-> DanglingId, failed |-> FALSE, id |-> 0]

\* what the component shows as its current record, the query being up to date
CurrentDoc(c) ==
    LET table == IF c = "FridgeAnalyzer" THEN fridgeAnalyses ELSE scannedRecipes
        doc == IF ui.current[c] \in DOMAIN table THEN table[ui.current[c]] ELSE Null
    IN IF doc # Null /\ doc.userId = SignedIn THEN doc ELSE Null

StatusOf(c, doc) == IF c = "FridgeAnalyzer" THEN doc.analysisStatus ELSE doc.scanStatus

\* the "Try Again" button is rendered (App.tsx 347-366, RecipeScanner.tsx 184-202)
TryAgainShown(c) ==
    IF CurrentDoc(c) = Null THEN FALSE ELSE StatusOf(c, CurrentDoc(c)) = "failed"

\* the delete button is rendered (RecipeScanner.tsx 150-152)
DeleteShown ==
    IF CurrentDoc("RecipeScanner") = Null THEN FALSE
    ELSE CurrentDoc("RecipeScanner").scanStatus = "completed"

OnlyUi == UNCHANGED <<fridgeAnalyses, scannedRecipes, nextAnalysisId, nextRecipeId,
                      jobs, issued, stored, reply>>

\* catch (error) { toast.error(...) } finally { setIsUploading(false) }
UploadFailed(h) ==
    [ui EXCEPT !.calls[h].pc = "end",
               !.toast = "Failed to upload",
               !.isUploading[ui.calls[h].comp] = FALSE]

\* handleFileSelect(file), up to await generateUploadUrl()
HandleFileSelect(c, image) ==
    /\ Idle
    /\ ~ui.isUploading[c] \/ TryAgainShown(c)
    /\ IF ~image
       THEN ui' = [ui EXCEPT !.toast = "Please select an image file"]
       ELSE /\ Len(ui.calls) < MaxHandlers
            /\ ui' = [ui EXCEPT
                        !.isUploading[c] = TRUE,
                        !.calls = Append(@, NewCall("handleFileSelect", c,
                                                    "generateUploadUrl", 0, 0))]
    /\ OnlyUi

\* the store serves generateUploadUrl
ServeUploadUrl(h, u) ==
    /\ ui.calls[h].pc = "generateUploadUrl"
    /\ GenerateUploadUrl(u, IF ui.calls[h].comp = "FridgeAnalyzer"
                            THEN "fridge.generateUploadUrl"
                            ELSE "recipes.generateUploadUrl")
    /\ ui' = [ui EXCEPT !.calls[h].pc = "uploadUrl", !.calls[h].failed = (u = NoUser)]

\* const uploadUrl = await generateUploadUrl(), up to await fetch(uploadUrl, ...)
AfterUploadUrl(h) ==
    /\ Idle
    /\ ui.calls[h].pc = "uploadUrl"
    /\ ui' = IF ui.calls[h].failed THEN UploadFailed(h)
             ELSE [ui EXCEPT !.calls[h].pc = "fetch"]
    /\ OnlyUi

\* the object store answers the POST: ok with a storage id, or not ok
Transfer(h, ok) ==
    /\ ui.calls[h].pc = "fetch"
    /\ IF ok
       THEN /\ Upload
            /\ ui' = [ui EXCEPT !.calls[h].pc = "fetched",
                                !.calls[h].storageId = stored + 1]
       ELSE /\ Idle
            /\ ui' = [ui EXCEPT !.calls[h].pc = "fetched", !.calls[h].failed = TRUE]
            /\ OnlyUi


\* AfterTransfer without the test of result.ok
AfterTransfer_NoOkCheck(h) ==
    /\ Idle
    /\ ui.calls[h].pc = "fetched"
    /\ ui' = [ui EXCEPT !.calls[h].pc = "submit"]
    /\ OnlyUi

\* if (!result.ok) throw ...; const { storageId } = await result.json(), up to
\* await analyzeImage({ storageId }) / await scanRecipe({ storageId })
AfterTransfer(h) ==
    /\ Idle
    /\ ui.calls[h].pc = "fetched"
    /\ ui' = IF ui.calls[h].failed THEN UploadFailed(h)
             ELSE [ui EXCEPT !.calls[h].pc = "submit"]
    /\ OnlyUi

\* the store serves analyzeImage / scanRecipe
ServeSubmit(h, u) ==
    /\ ui.calls[h].pc = "submit"
    /\ IF ui.calls[h].comp = "FridgeAnalyzer"
       THEN /\ AnalyzeImage(u, ui.calls[h].storageId)
            /\ ui' = [ui EXCEPT !.calls[h].pc = "submitted",
                                !.calls[h].failed = (u = NoUser),
                                !.calls[h].id = IF u = NoUser THEN 0 ELSE nextAnalysisId]
       ELSE /\ ScanRecipe(u, ui.calls[h].storageId)
            /\ ui' = [ui EXCEPT !.calls[h].pc = "submitted",
                                !.calls[h].failed = (u = NoUser),
                                !.calls[h].id = IF u = NoUser THEN 0 ELSE nextRecipeId]

\* setCurrentAnalysisId(analysisId) / setCurrentRecipeId(recipeId); toast.success;
\* finally { setIsUploading(false) }
AfterSubmit(h) ==
    /\ Idle
    /\ ui.calls[h].pc = "submitted"
    /\ ui' = IF ui.calls[h].failed THEN UploadFailed(h)
             ELSE [ui EXCEPT !.calls[h].pc = "end",
                             !.current[ui.calls[h].comp] = ui.calls[h].id,
                             !.toast = "uploaded",
                             !.isUploading[ui.calls[h].comp] = FALSE]
    /\ OnlyUi

\* onClick={() => handleDeleteRecipe(currentRecipe._id)}, up to await deleteRecipe
HandleDeleteRecipe(id) ==
    /\ Idle
    /\ DeleteShown
    /\ id = ui.current["RecipeScanner"]
    /\ Len(ui.calls) < MaxHandlers
    /\ ui' = [ui EXCEPT !.calls = Append(@, NewCall("handleDeleteRecipe", "RecipeScanner",
                                                   "deleteRecipe", id,
                                                   ui.current["RecipeScanner"]))]
    /\ OnlyUi

\* the store serves deleteRecipe
ServeDelete(h, u) ==
    /\ ui.calls[h].pc = "deleteRecipe"
    /\ DeleteRecipe(u, ui.calls[h].recipeId)
    /\ ui' = [ui EXCEPT !.calls[h].pc = "deleted", !.calls[h].failed = (reply'.err # "")]

\* AfterDelete, had the selection been left alone
AfterDelete_KeepsSelection(h) ==
    /\ Idle
    /\ ui.calls[h].pc = "deleted"
    /\ ui' = [ui EXCEPT !.calls[h].pc = "end",
                        !.toast = IF ui.calls[h].failed THEN "Failed to delete recipe"
                                  ELSE "Recipe deleted successfully"]
    /\ OnlyUi

\* if (currentRecipeId === recipeId) setCurrentRecipeId(null); toast.success / catch:
\* toast.error.  currentRecipeId is the value the handler closed over when called
AfterDelete(h) ==
    /\ Idle
    /\ ui.calls[h].pc = "deleted"
    /\ ui' = IF ui.calls[h].failed
             THEN [ui EXCEPT !.calls[h].pc = "end", !.toast = "Failed to delete recipe"]
             ELSE [ui EXCEPT !.calls[h].pc = "end",
                             !.toast = "Recipe deleted successfully",
                             !.current["RecipeScanner"] =
                                 IF ui.calls[h].seen = ui.calls[h].recipeId THEN 0 ELSE @]
    /\ OnlyUi

\* onClick={() => setCurrentRecipeId(recipe._id)} on an entry of userRecipes
SetCurrentRecipeId(id) ==
    /\ Idle
    /\ id \in DOMAIN scannedRecipes
    /\ scannedRecipes[id].userId = SignedIn
    /\ ui' = [ui EXCEPT !.current["RecipeScanner"] = id]
    /\ OnlyUi

\* onClick={() => setCurrentAnalysisId(analysis._id)} on an entry of userAnalyses
SetCurrentAnalysisId(id) ==
    /\ Idle
    /\ id \in DOMAIN fridgeAnalyses
    /\ fridgeAnalyses[id].userId = SignedIn
    /\ ui' = [ui EXCEPT !.current["FridgeAnalyzer"] = id]
    /\ OnlyUi

\* the documents the client finds: a failed analysis, a completed scan and a
\* failed scan of the user, their functions ended
FoundAnalyses ==
    PatchAnalysis((1 :> NewAnalysis(SignedIn, 1, 1)), 1, JArr(<<>>), JArr(<<>>), "failed")

FoundRecipes ==
    PatchScannedRecipe(
       PatchScannedRecipe((1 :> NewRecipe(SignedIn, 2, 1)) @@ (2 :> NewRecipe(SignedIn, 3, 2)),
                          1, RecipeDataOutcomes[4].val, "completed"),
       2, FailedRecipeData, "failed")

UiInit ==
    /\ fridgeAnalyses = FoundAnalyses
    /\ scannedRecipes = FoundRecipes
    /\ nextAnalysisId = 2
    /\ nextRecipeId = 3
    /\ jobs = << Finished(Patched(Caught(Requested(NewJob("processImage", 1, 1), "infer"),
                                         "Connection error")), "done"),
                 Finished(Patched(Requested(NewJob("processRecipeImage", 1, 2), "infer")),
                          "done"),
                 Finished(Patched(Caught(Requested(NewJob("processRecipeImage", 2, 3),
                                                   "infer"),
                                         "Connection error")), "done") >>
    /\ issued = 3
    /\ stored = 3
    /\ reply = NoReply
    /\ ui = NoUi

UiNext ==
    \/ Return /\ UNCHANGED ui
    \/ \E c \in Components, image \in BOOLEAN : HandleFileSelect(c, image)
    \/ \E h \in 1..Len(ui.calls), u \in {SignedIn, NoUser} : ServeUploadUrl(h, u)
    \/ \E h \in 1..Len(ui.calls) : AfterUploadUrl(h)
    \/ \E h \in 1..Len(ui.calls), ok \in BOOLEAN : Transfer(h, ok)
    \/ \E h \in 1..Len(ui.calls) : AfterTransfer(h)
    \/ \E h \in 1..Len(ui.calls), u \in {SignedIn, NoUser} : ServeSubmit(h, u)
    \/ \E h \in 1..Len(ui.calls) : AfterSubmit(h)
    \/ \E id \in DOMAIN scannedRecipes : HandleDeleteRecipe(id)
    \/ \E h \in 1..Len(ui.calls), u \in {SignedIn, NoUser} : ServeDelete(h, u)
    \/ \E h \in 1..Len(ui.calls) : AfterDelete(h)
    \/ \E id \in DOMAIN scannedRecipes : SetCurrentRecipeId(id)
    \/ \E id \in DOMAIN fridgeAnalyses : SetCurrentAnalysisId(id)

SpecUi == UiInit /\ [][UiNext]_vars


----------------------------------------------------------------------------
(* Properties of the client *)

FileSelects == {h \in 1..Len(ui.calls) : ui.calls[h].fn = "handleFileSelect"}

\* the steps of handleFileSelect, in the order of the code
SelectOrder ==
    {<<"generateUploadUrl", "uploadUrl">>, <<"uploadUrl", "fetch">>, <<"fetch", "fetched">>,
     <<"fetched", "submit">>, <<"submit", "submitted">>, <<"submitted", "end">>}

\* C23: handleFileSelect asks for an upload target only for an image file, posts
\* the file only to a target it obtained, and calls analyzeImage / scanRecipe only
\* with the storage id of a transfer that answered ok, in this order; a file that
\* is not an image changes nothing but the toast, and an invocation whose target
\* or transfer failed ends without a document inserted or a function scheduled.
SubmissionInOrder ==
    [][ /\ \A c \in Components :
              HandleFileSelect(c, FALSE)
                 => /\ UNCHANGED <<fridgeAnalyses, scannedRecipes, jobs, issued, stored>>
                    /\ ui'.calls = ui.calls
                    /\ ui'.isUploading = ui.isUploading
        /\ issued' # issued =>
              \E h \in FileSelects :
                 /\ ui.calls[h].pc = "generateUploadUrl"
                 /\ ui'.calls[h].pc = "uploadUrl"
        /\ stored' # stored =>
              \E h \in FileSelects :
                 /\ ui.calls[h].pc = "fetch"
                 /\ ~ui.calls[h].failed
                 /\ ui'.calls[h].pc = "fetched"
                 /\ ui'.calls[h].storageId = stored'
        /\ (Inserted' # Inserted \/ jobs' # jobs) =>
              \E h \in FileSelects :
                 /\ ui.calls[h].pc = "submit"
                 /\ ui'.calls[h].pc = "submitted"
                 /\ ui.calls[h].storageId \in 1..stored
                 /\ Inserted' = Inserted + 1
                 /\ Len(jobs') = Len(jobs) + 1
                 /\ jobs'[Len(jobs')].storageId = ui.calls[h].storageId
        /\ \A h \in FileSelects :
              /\ ui'.calls[h].pc # ui.calls[h].pc =>
                    \/ <<ui.calls[h].pc, ui'.calls[h].pc>> \in SelectOrder
                          /\ (ui.calls[h].failed => ui'.calls[h].pc \in {"uploadUrl", "fetched", "submitted"})
                    \/ ui.calls[h].failed /\ ui'.calls[h].pc = "end"
              /\ (ui.calls[h].failed /\ ui.calls[h].pc \in {"uploadUrl", "fetched"})
                    => /\ ui'.calls[h].pc \in {ui.calls[h].pc, "end"}
                       /\ ui'.calls[h].id = 0
              /\ ui.calls[h].pc = "end" => ui'.calls[h] = ui.calls[h]
      ]_vars

\* an invocation has ended with its scan submitted, another after a failed transfer
SubmissionInOrderWitness ==
    \E h, k \in FileSelects :
       /\ ui.calls[h].pc = "end"
       /\ ui.calls[h].id \in DOMAIN scannedRecipes
       /\ scannedRecipes[ui.calls[h].id].imageId = ui.calls[h].storageId
       /\ ui.calls[h].storageId > 0
       /\ ui.calls[k].pc = "end"
       /\ ui.calls[k].failed
       /\ ui.calls[k].storageId = DanglingId


Deletes == {h \in 1..Len(ui.calls) : ui.calls[h].fn = "handleDeleteRecipe"}

\* C24: when handleDeleteRecipe's deleteRecipe(A) has succeeded and A is the
\* selected recipe, the handler sets currentRecipeId to null; when the deletion
\* has failed the handler leaves currentRecipeId as it is; and no step in which
\* the store changes (a mutation served, a step of a scheduled function) changes
\* the selection of either component.
SelectionClearedByCaller ==
    [][ /\ \A h \in Deletes :
              (ui.calls[h].pc = "deleted" /\ ui'.calls[h].pc = "end")
                 => IF ui.calls[h].failed
                    THEN ui'.current = ui.current
                    ELSE (ui.current["RecipeScanner"] = ui.calls[h].recipeId
                             => ui'.current["RecipeScanner"] = 0)
        /\ (store' # store \/ reply' # reply) => ui'.current = ui.current
      ]_vars

\* one deletion of the selected recipe has succeeded and cleared the selection,
\* another has failed and left it
SelectionClearedByCallerWitness ==
    \E h, k \in Deletes :
       /\ ui.calls[h].pc = "end"
       /\ ~ui.calls[h].failed
       /\ ui.calls[h].recipeId \notin DOMAIN scannedRecipes
       /\ ui.calls[k].pc = "end"
       /\ ui.calls[k].failed
       /\ ui.toast = "Failed to delete recipe"
       /\ ui.current["RecipeScanner"] = 0


\* the invocations of handleFileSelect of a component that passed the type check
\* and have not finished
InFlight(c) == {h \in FileSelects : ui.calls[h].comp = c /\ ui.calls[h].pc # "end"}

\* C27: isUploading of a component is true exactly while one of its
\* handleFileSelect invocations is past the type check and has not finished, also
\* when a second file is chosen through "Try Again" during an earlier upload.
UploadingWhileInFlight ==
    \A c \in Components : ui.isUploading[c] = (InFlight(c) # {})

\* C28: when the deletion of A completes successfully while another recipe is
\* selected, the selection is left as it is.
OtherSelectionKept ==
    [][ \A h \in Deletes :
           (/\ ui.calls[h].pc = "deleted"
            /\ ui'.calls[h].pc = "end"
            /\ ~ui.calls[h].failed
            /\ ui.current["RecipeScanner"] # ui.calls[h].recipeId)
              => ui'.current["RecipeScanner"] = ui.current["RecipeScanner"]
      ]_vars

====
